---- MODULE Spec2Model ----
(***************************************************************************)
(* A model of the crow voice-assistant orchestrator: the conversation      *)
(* memory (DefaultMemory), the ReAct agent loop (ReActAgent), the          *)
(* websocket connection wrapper (websocketConn) and the session handler    *)
(* (Handler).  Message contents are sequences of tokens, so that the       *)
(* empty string is <<>> and truncation is SubSeq.                          *)
(***************************************************************************)
EXTENDS Integers, Sequences, FiniteSets, TLC

VARIABLES
    messages,        \* DefaultMemory.messages
    lastAdd,         \* the latest memory operation: "new", "add", "trim" (an AddMessage
                     \* that removed messages), "format", "fill", "drop" (a
                     \* FormatMessages that changed nothing, appended, removed),
                     \* "clear" (history)
    state,           \* ReActAgent.state
    currentStep,     \* ReActAgent.currentStep
    toolCalls,       \* ReActAgent.toolCalls
    interrupt,       \* ReActAgent.interrupt (0 or 1)
    nextStepPrompt,  \* ReActAgent.nextStepPrompt
    toolChoice,      \* what ReAct.GetToolChoice returns
    lock,            \* ReActAgent.lock: 0 when free, else the Run holding it
    pc,              \* where each call of Run is
    recv,            \* the step's recvLLMMessages goroutine: "none", "running", "done"
    actIdx,          \* index in toolCalls of the tool call act executes next
    runErr,          \* what each call of Run returned: "none", "nil", "error"
    normalized,      \* the memory as FormatMessages left it at the latest Run (history)
    nCompleted,      \* OnAgentResult(_, "", Completed) deliveries of the current Run (history)
    listenerTrue,    \* the listener returned true for a delta in the current Run (history)
    roundToolCalls,  \* tool_calls of the assistant messages added in the current Run (history)
    roundToolMsgs,   \* tool messages added in the current Run (history)
    toolRuns,        \* ExecuteTool calls of the current Run (history)
    exitKind,        \* how the latest Run left its loop (history)
    isClosed,        \* websocketConn.isClosed (0 or 1)
    connLock,        \* websocketConn.lock: 0 when free, else the caller holding it
    connPc,          \* where each caller of the connection is
    nSockClose,      \* calls of the underlying conn.Close (history)
    connOps,         \* calls of ReadMessage, WriteMessage and Close so far
    closeRets,       \* Close calls that have returned (history)
    closeErrs,       \* Close calls that returned an error (history)
    closeCalls,      \* Close calls made (history)
    sockWrites,      \* data writes that reached the underlying socket (history)
    writeRet,        \* what each caller's latest WriteMessage returned (history)
    hInterrupt,      \* Handler.interrupt (0 or 1)
    chatRound,       \* Handler.chatRound
    pumpPc,          \* where the text pump is in handleClientTextMessages
    frames,          \* the chat and tts frames written to the client, in order (history)
    deltas,          \* LLM deltas each Run has passed to the listener
    ttsRunning,      \* DoubaoStream.isRunning
    ttsOwner,        \* the chat round whose text opened the TTS connection
    ttsQueue,        \* the chat rounds of the texts whose audio is still to come
    ttsExiting,      \* chat rounds of TTS readers whose connection was closed
    ttsResult,       \* the latest call of Handler.OnTtsResult and what it did (history)
    enableTts,       \* Handler.enableTts, the enable_tts of the hello message
    ttsConfigured,   \* Handler.ttsProvider is not nil: the server selects a TTS module
    ttsInvoked,      \* ToTTS of the TTS provider has been called (history)
    closeAfterChat,  \* Handler.closeAfterChat
    stopRecv,        \* Handler.stopRecv
    sessClosed,      \* Handler.close has run for this session
    closeRound,      \* the chat round that set closeAfterChat, 0 when none did (history)
    closeCause,      \* why closeAfterChat was set: "none", "exit", "silence" (history)
    asrPc,           \* the reader of the Doubao ASR provider: "off", "reading", "defer", "exited"
    onceState,       \* Handler.once: "fresh", "running" (the body runs), "done"
    closerPc,        \* where each caller of Handler.close is
    closeLog,        \* what the body of Handler.close has done, in order (history)
    nStopClose,      \* executions of close(h.stopChan)
    readerPc,        \* where listenClientMessages is
    readerMsg,       \* the message handleMessage is putting on a queue
    textQueue,       \* Handler.clientTextQueue
    audioQueue,      \* Handler.clientAudioQueue (the number of chunks in it)
    textPumpPc,      \* listenClientTextMessages: "select" or "exited"
    audioPumpPc,     \* listenClientAudioMessages: "none", "select" or "exited"
    nReads,          \* messages the reader has read
    readFailed,      \* the reader's ReadMessage has failed (history)
    received,        \* messages of each kind that were handled (history)
    errFrames,       \* error frames with code 10400 sent for each kind (history)
    ctxDone,         \* the context passed to Handle is cancelled
    pKind,           \* which ASR or TTS provider is looked at
    prov,            \* the provider's fields and its reader (readMessage)
    pHist,           \* what happened to the provider's session (history)
    mcp,             \* tool.MCPClient: sessions, session2Tools, Tools
    agentTools,      \* MCPAgent.tools, the MCP tools in it: tool name -> server of its client
    mcpDisabled,     \* the servers of McpConfig.McpServers with Disabled set
    mcpPc,           \* who uses the MCPClient: "client", or the MCPAgent's "new", "ready", ...
    mcpRuns,         \* Runs of the agent that have returned
    dupConfigured,   \* the value given to WithDuplicateThreshold
    duplicateThreshold,  \* ReActAgent.duplicateThreshold
    replyCh,            \* OpenAI.replyCh: the deltas and final flags in the channel
    sNum,               \* calls of OpenAI.Handle so far, the number of the current stream
    sTotal,             \* non-empty deltas the current stream produces
    sPushed,            \* deltas of the current stream that Handle has pushed
    hPc,                \* OpenAI.Handle: "none", "streaming", "returned", "rejected"
    rPc,                \* recvLLMMessages: "none", "reading", "exited"
    sIntr,              \* ReActAgent.interrupt as the delta reader and Run see it
    sPc,                \* Run and step: "idle", "loop", "think", "wait", "exit"
    sDelivered,          \* the deltas given to the listener, in order (history)
    bText,              \* Doubao.text of the batched TTS provider: the buffer
    bSent,              \* the texts passed to sendMessage, in order (history)
    bInput,             \* the characters passed to ToTTS so far (history)
    bOp,                 \* the last call on the provider: "new", "tts", "finish", "reset"
    dConn,              \* Doubao.conn of the ASR provider: "nil" or "open"
    dIsRunning,         \* Doubao.isRunning of the ASR provider
    dSendPc,            \* SendAudio: "idle", "init", "test", "nilcheck", "write"
    dReadPc,            \* readMessage: "none", "check", "read", "exited"
    dUnlocked,          \* the accesses to conn and isRunning made without the mutex (history)
    dNilUse             \* the calls made on a conn that was nil (history)

memVars == <<messages, lastAdd>>

agentVars == <<state, currentStep, toolCalls, interrupt, nextStepPrompt, toolChoice,
               lock, pc, recv, actIdx, runErr, normalized, nCompleted, listenerTrue,
               roundToolCalls, roundToolMsgs, toolRuns, exitKind>>

connHist == <<closeCalls, sockWrites, writeRet>>

connVars == <<isClosed, connLock, connPc, nSockClose, connOps, closeRets, closeErrs,
              closeCalls, sockWrites, writeRet>>

shutVars == <<closeAfterChat, stopRecv, sessClosed, closeRound, closeCause, asrPc>>

sessVars == <<hInterrupt, chatRound, pumpPc, frames, deltas, ttsRunning, ttsOwner,
              ttsQueue, ttsExiting, ttsResult, enableTts, ttsConfigured, ttsInvoked,
              shutVars>>

lifeVars == <<onceState, closerPc, closeLog, nStopClose, readerPc, readerMsg, textQueue,
              audioQueue, textPumpPc, audioPumpPc, nReads, readFailed, received,
              errFrames, ctxDone>>

provVars == <<pKind, prov, pHist>>

\* the variables of the components that the memory, the agent loop, the
\* connection and the handler leave alone
mcpVars == <<mcp, agentTools, mcpDisabled, mcpPc, mcpRuns>>

stuckVars == <<dupConfigured, duplicateThreshold>>

streamVars == <<replyCh, sNum, sTotal, sPushed, hPc, rPc, sIntr, sPc, sDelivered>>

batchVars == <<bText, bSent, bInput, bOp>>

raceVars == <<dConn, dIsRunning, dSendPc, dReadPc, dUnlocked, dNilUse>>

restVars == <<provVars, mcpVars, stuckVars, streamVars, batchVars, raceVars>>

vars == <<messages, lastAdd, state, currentStep, toolCalls, interrupt, nextStepPrompt,
          toolChoice, lock, pc, recv, actIdx, runErr, normalized, nCompleted,
          listenerTrue, roundToolCalls, roundToolMsgs, toolRuns, exitKind,
          isClosed, connLock, connPc, nSockClose, connOps, closeRets, closeErrs,
          closeCalls, sockWrites, writeRet,
          hInterrupt, chatRound, pumpPc, frames, deltas, ttsRunning, ttsOwner,
          ttsQueue, ttsExiting, ttsResult, enableTts, ttsConfigured, ttsInvoked,
          closeAfterChat, stopRecv, sessClosed, closeRound, closeCause, asrPc,
          onceState, closerPc, closeLog, nStopClose, readerPc, readerMsg, textQueue,
          audioQueue, textPumpPc, audioPumpPc, nReads, readFailed, received, errFrames,
          ctxDone, pKind, prov, pHist, mcp, agentTools, mcpDisabled, mcpPc, mcpRuns,
          dupConfigured, duplicateThreshold,
          replyCh, sNum, sTotal, sPushed, hPc, rPc, sIntr, sPc, sDelivered,
          bText, bSent, bInput, bOp,
          dConn, dIsRunning, dSendPc, dReadPc, dUnlocked, dNilUse>>

-----------------------------------------------------------------------------
(* Bounds of the model and configuration values *)

\* DefaultMemory.maxMessages: the smallest value NewDefaultMemory accepts
\* (any value <= 5 is replaced by 20)
MaxMessages == 6

\* ReActAgent.maxSteps (WithMaxSteps accepts any value > 0)
MaxSteps == 2

\* ReActAgent.maxObserve (WithMaxObserve accepts any value > 0)
MaxObserve == 1

\* calls of Run in one behaviour
MaxRuns == 2

\* tool_calls in one LLM response
MaxToolCalls == 2

\* ReActAgent.duplicateThreshold as NewReActAgent leaves it by default
DuplicateThreshold == 2

\* goroutines that call the connection
MaxCallers == 3

\* the largest value given to WithDuplicateThreshold
MaxThreshold == 2

\* times the stuck prompt is put in front of next_step_prompt in one behaviour
MaxPrompt == 2

\* calls of the connection in one behaviour
MaxConnOps == 4

\* LLM deltas of one Run
MaxDeltas == 2

\* capacity of clientTextQueue and clientAudioQueue (100 in the source)
QueueCap == 1

\* messages the conn reader reads in one behaviour
MaxReads == 3

\* sessions one provider starts in one behaviour
MaxSessions == 2

\* backend messages a provider's reader reads in one behaviour
MaxEvents == 3

\* where the model stops counting sent chunks, buffered texts and silences
MaxCount == 2

\* frames written to the client in one behaviour
MaxFrames == 4

-----------------------------------------------------------------------------
(* schema: messages and tool calls *)

EmptyContent == <<>>

ToolCall(id, fname) == [id |-> id, name |-> fname]

UserMessage(content) ==
    [role |-> "user", content |-> content, toolCalls |-> <<>>,
     name |-> "", toolCallID |-> ""]

SystemMessage(content) ==
    [role |-> "system", content |-> content, toolCalls |-> <<>>,
     name |-> "", toolCallID |-> ""]

AssistantMessage(content) ==
    [role |-> "assistant", content |-> content, toolCalls |-> <<>>,
     name |-> "", toolCallID |-> ""]

ToolMessage(content, fname, toolCallID) ==
    [role |-> "tool", content |-> content, toolCalls |-> <<>>,
     name |-> fname, toolCallID |-> toolCallID]

FromToolCalls(tcs, content) ==
    [role |-> "assistant", content |-> content, toolCalls |-> tcs,
     name |-> "", toolCallID |-> ""]

\* the content of the synthetic tool message FormatMessages appends
InterruptedContent == <<"interrupted">>

-----------------------------------------------------------------------------
(* memory.DefaultMemory *)

\* index of the nearest assistant message walking back from the end, 0 if none
NearestAssistant(msgs) ==
    LET S == {i \in 1..Len(msgs) : msgs[i].role = "assistant"}
    IN IF S = {} THEN 0 ELSE CHOOSE i \in S : \A j \in S : j <= i

RECURSIVE FillMissing(_, _, _)
\* for each tool call, in order, that has no tool message: a synthetic one
FillMissing(tcs, answered, k) ==
    IF k > Len(tcs) THEN <<>>
    ELSE (IF tcs[k].id \in answered
          THEN <<>>
          ELSE <<ToolMessage(InterruptedContent, tcs[k].name, tcs[k].id)>>)
         \o FillMissing(tcs, answered, k + 1)

FormatMessagesBothNeeded(msgs) ==
    IF Len(msgs) = 0 THEN msgs
    ELSE LET last == msgs[Len(msgs)] IN
         IF last.role = "assistant"
            /\ last.content = EmptyContent /\ Len(last.toolCalls) > 0
         THEN SubSeq(msgs, 1, Len(msgs) - 1)
         ELSE msgs

FormatMessagesNoFill(msgs) ==
    IF Len(msgs) = 0 THEN msgs
    ELSE LET last == msgs[Len(msgs)] IN
         IF last.role = "assistant"
         THEN IF last.content = EmptyContent \/ Len(last.toolCalls) > 0
              THEN SubSeq(msgs, 1, Len(msgs) - 1)
              ELSE msgs
         ELSE msgs

FormatMessages(msgs) ==
    IF Len(msgs) = 0 THEN msgs
    ELSE LET last == msgs[Len(msgs)] IN
         IF last.role = "assistant"
         THEN IF last.content = EmptyContent \/ Len(last.toolCalls) > 0
              THEN SubSeq(msgs, 1, Len(msgs) - 1)
              ELSE msgs
         ELSE IF last.role = "tool"
         THEN LET a == NearestAssistant(msgs)
                  answered == {msgs[j].toolCallID :
                                 j \in {k \in (a + 1)..Len(msgs) : msgs[k].role = "tool"}}
                  tcs == IF a = 0 THEN <<>> ELSE msgs[a].toolCalls
              IN IF Len(tcs) # Cardinality(answered)
                 THEN msgs \o FillMissing(tcs, answered, 1)
                 ELSE msgs
         ELSE msgs

\* number of system messages before index i
SystemBefore(msgs, i) ==
    Cardinality({j \in 1..(i - 1) : msgs[j].role = "system"})

\* the system messages before index i, in order
RECURSIVE SystemPrefix(_, _)
SystemPrefix(msgs, i) ==
    IF i <= 1 THEN <<>>
    ELSE SystemPrefix(msgs, i - 1)
         \o (IF msgs[i - 1].role = "system" THEN <<msgs[i - 1]>> ELSE <<>>)

\* the indexes at which the overflow loop of AddMessage may cut: a user
\* message that is not the first user message and whose suffix fits
CutPoints(app, max) ==
    {i \in 1..Len(app) :
        /\ app[i].role = "user"
        /\ \E j \in 1..(i - 1) : app[j].role = "user"
        /\ SystemBefore(app, i) + (Len(app) - i + 1) <= max}

AddMessageNaiveTail(msgs, new, max) ==
    LET app == msgs \o new
    IN IF Len(app) <= max THEN app
       ELSE SubSeq(app, Len(app) - max + 1, Len(app))

AddMessage(msgs, new, max) ==
    LET app == msgs \o new
    IN IF Len(app) <= max THEN app
       ELSE LET C == CutPoints(app, max)
            IN IF C = {} THEN app
               ELSE LET i == CHOOSE c \in C : \A d \in C : c <= d
                    IN SystemPrefix(app, i) \o SubSeq(app, i, Len(app))

\* what a call of FormatMessages did to the memory
FormatKind(before, after) ==
    IF Len(after) < Len(before) THEN "drop"
    ELSE IF Len(after) > Len(before) THEN "fill"
    ELSE "format"

\* what a call of AddMessage with one message did to the memory
AddKind(before, after) == IF Len(after) <= Len(before) THEN "trim" ELSE "add"

GetRecentMessages(msgs, n) ==
    IF n <= 0 \/ Len(msgs) = 0 THEN <<>>
    ELSE IF n > Len(msgs) THEN msgs
    ELSE SubSeq(msgs, Len(msgs) - n + 1, Len(msgs))

-----------------------------------------------------------------------------
(* The memory driven through its interface alone *)

MemKinds ==
    { SystemMessage(<<"s">>),
      UserMessage(<<"p">>),
      AssistantMessage(<<"a">>),
      AssistantMessage(EmptyContent),
      FromToolCalls(<<ToolCall("c1", "current_time"), ToolCall("c2", "terminate")>>,
                    EmptyContent),
      FromToolCalls(<<ToolCall("c1", "current_time")>>, <<"a">>),
      ToolMessage(<<"r">>, "current_time", "c1") }

Runs == 1..MaxRuns

AgentIdle ==
    /\ state = "IDLE"
    /\ currentStep = 0
    /\ toolCalls = <<>>
    /\ interrupt = 0
    /\ lock = 0
    /\ pc = [p \in Runs |-> "idle"]
    /\ recv = "none"
    /\ actIdx = 0
    /\ runErr = [p \in Runs |-> "none"]
    /\ normalized = <<>>
    /\ nCompleted = 0
    /\ listenerTrue = FALSE
    /\ roundToolCalls = 0
    /\ roundToolMsgs = 0
    /\ toolRuns = 0
    /\ exitKind = "none"

Callers == 1..MaxCallers

\* no call of OnTtsResult yet
NoTtsResult == [intr |-> 0, completed |-> FALSE, write |-> FALSE, reset |-> FALSE,
                ret |-> FALSE, called |-> FALSE]

ConnOpen ==
    /\ isClosed = 0
    /\ connLock = 0
    /\ connPc = [t \in Callers |-> "idle"]
    /\ nSockClose = 0
    /\ connOps = 0
    /\ closeRets = 0
    /\ closeErrs = 0
    /\ closeCalls = 0
    /\ sockWrites = 0
    /\ writeRet = [t \in Callers |-> "none"]

\* the handler after the handshake, before any chat round
SessionStart ==
    /\ hInterrupt = 0
    /\ chatRound = 0
    /\ pumpPc = "idle"
    /\ frames = <<>>
    /\ deltas = [r \in Runs |-> 0]
    /\ ttsRunning = FALSE
    /\ ttsOwner = 0
    /\ ttsQueue = <<>>
    /\ ttsExiting = {}
    /\ ttsResult = NoTtsResult
    /\ ttsInvoked = FALSE
    /\ closeAfterChat = FALSE
    /\ stopRecv = 0
    /\ sessClosed = FALSE
    /\ closeRound = 0
    /\ closeCause = "none"

\* a session whose hello enabled TTS, on a server with a TTS module
SessionIdle ==
    /\ SessionStart
    /\ enableTts = TRUE
    /\ ttsConfigured = TRUE
    /\ asrPc = "off"

\* the goroutines that call Handler.close: the one handleChatMessage starts
\* around Run, and the text pump when its write of a frame fails
Closers == {"run", "pump"}

\* what a client sends after the handshake: a text frame that is no JSON, a
\* JSON text frame of an unknown type, an abort, an audio chunk, and a frame
\* that is neither text nor binary
InputKinds == {"malformed", "unknown", "abort", "audio", "other"}

\* the handler after the handshake, before the reader and the pumps have
\* done anything; no audio pump exists
LifeIdle ==
    /\ onceState = "fresh"
    /\ closerPc = [c \in Closers |-> "idle"]
    /\ closeLog = <<>>
    /\ nStopClose = 0
    /\ readerPc = "select"
    /\ readerMsg = "none"
    /\ textQueue = <<>>
    /\ audioQueue = 0
    /\ textPumpPc = "select"
    /\ audioPumpPc = "none"
    /\ nReads = 0
    /\ readFailed = FALSE
    /\ received = [k \in InputKinds |-> 0]
    /\ errFrames = [k \in InputKinds |-> 0]
    /\ ctxDone = FALSE

\* a provider that was just constructed
NewProvider ==
    [running |-> FALSE, conn |-> FALSE, sent |-> FALSE, completed |-> 0, pc |-> "none",
     count |-> 0, text |-> 0, silence |-> 0]

NoProvHist == [failed |-> FALSE, last |-> FALSE, sessions |-> 0, events |-> 0, op |-> "new"]

Servers == {"s1", "s2"}

McpToolNames == {"t1", "t2"}

NoServer == "none"

\* NewMCPClient: no session, no tool
NewMCPClient ==
    [sessions |-> {},
     session2Tools |-> [s \in Servers |-> {}],
     Tools |-> [t \in McpToolNames |-> NoServer]]

\* no Run has used the LLM client: NewOpenAI has made the empty channel
StreamIdle ==
    /\ replyCh = <<>>
    /\ sNum = 0
    /\ sTotal = 0
    /\ sPushed = 0
    /\ hPc = "none"
    /\ rPc = "none"
    /\ sIntr = 0
    /\ sPc = "idle"
    /\ sDelivered = <<>>

\* NewDoubao: the batched TTS provider with the empty buffer
BatchIdle ==
    /\ bText = <<>>
    /\ bSent = <<>>
    /\ bInput = <<>>
    /\ bOp = "new"

\* NewDoubao of the ASR provider: no connection, not running
RaceIdle ==
    /\ dConn = "nil"
    /\ dIsRunning = FALSE
    /\ dSendPc = "idle"
    /\ dReadPc = "none"
    /\ dUnlocked = {}
    /\ dNilUse = {}

\* the agent created without WithDuplicateThreshold
StuckIdle ==
    /\ dupConfigured = DuplicateThreshold
    /\ duplicateThreshold = DuplicateThreshold

McpIdle ==
    /\ mcp = NewMCPClient
    /\ agentTools = [t \in McpToolNames |-> NoServer]
    /\ mcpDisabled = {}
    /\ mcpPc = "client"
    /\ mcpRuns = 0

ProvIdle ==
    /\ pKind = "doubao_stream"
    /\ prov = NewProvider
    /\ pHist = NoProvHist

MemInit ==
    /\ RaceIdle
    /\ BatchIdle
    /\ StreamIdle
    /\ ProvIdle
    /\ McpIdle
    /\ StuckIdle
    /\ ConnOpen
    /\ SessionIdle
    /\ LifeIdle
    /\ messages = <<>>
    /\ lastAdd = "new"
    /\ AgentIdle
    /\ nextStepPrompt = <<>>
    /\ toolChoice = "auto"

MemAddMessage ==
    /\ Len(messages) <= MaxMessages
    /\ \E m \in MemKinds :
          messages' = AddMessage(messages, <<m>>, MaxMessages)
    /\ lastAdd' = AddKind(messages, messages')
    /\ UNCHANGED <<agentVars, connVars, sessVars, lifeVars, restVars>>

MemFormatMessages ==
    /\ messages' = FormatMessages(messages)
    /\ lastAdd' = FormatKind(messages, messages')
    /\ UNCHANGED <<agentVars, connVars, sessVars, lifeVars, restVars>>

MemClear ==
    /\ messages' = <<>>
    /\ lastAdd' = "clear"
    /\ UNCHANGED <<agentVars, connVars, sessVars, lifeVars, restVars>>

MemNext ==
    \/ MemAddMessage
    \/ MemFormatMessages
    \/ MemClear

SpecMem == MemInit /\ [][MemNext]_vars


-----------------------------------------------------------------------------
(* react.ReActAgent with the tools of MCPAgent *)

ToolCallIds == <<"c1", "c2", "c3", "c4">>

\* the tool names an LLM response may carry: the two built-in tools
ToolNames == {"terminate", "current_time"}

RegisteredTools == {"terminate", "current_time"}

SpecialToolNames == {"terminate"}

\* the tool_call lists of an LLM response, ids distinct within a response
ToolCallLists ==
    UNION { { [k \in 1..n |-> ToolCall(ToolCallIds[k], f[k])] : f \in [1..n -> ToolNames] } :
            n \in 0..MaxToolCalls }

\* the LLM responses: text only, nothing at all, or tool calls without text
Responses ==
    {[content |-> c, toolCalls |-> <<>>] : c \in {EmptyContent, <<"a">>}}
    \cup {[content |-> EmptyContent, toolCalls |-> tcs] : tcs \in ToolCallLists \ {<<>>}}

UserPrompts == {EmptyContent, <<"p">>}

ToolResult(fname) ==
    IF fname = "terminate" THEN <<"completed", "status">> ELSE <<"time", "stamp">>

\* an ExecuteTool that flags no tool as special
ExecuteToolNoSpecial(tc, ok) ==
    IF tc.name = ""
    THEN [state |-> "ERROR", result |-> <<"Error", "format">>]
    ELSE IF tc.name \notin RegisteredTools
    THEN [state |-> "ERROR", result |-> <<"Error", "unknown">>]
    ELSE IF ~ok
    THEN [state |-> "ERROR", result |-> <<"Error", "execute">>]
    ELSE [state |-> "RUNNING", result |-> ToolResult(tc.name)]

\* MCPAgent.ExecuteTool; ok says whether the tool's Execute returned no error
ExecuteTool(tc, ok) ==
    IF tc.name = ""
    THEN [state |-> "ERROR", result |-> <<"Error", "format">>]
    ELSE IF tc.name \notin RegisteredTools
    THEN [state |-> "ERROR", result |-> <<"Error", "unknown">>]
    ELSE IF ~ok
    THEN [state |-> "ERROR", result |-> <<"Error", "execute">>]
    ELSE [state |-> IF tc.name \in SpecialToolNames THEN "FINISHED" ELSE "RUNNING",
          result |-> ToolResult(tc.name)]

\* the truncation of a tool result in act
Observe(result) ==
    IF MaxObserve > 0 /\ MaxObserve < Len(result)
    THEN SubSeq(result, 1, MaxObserve)
    ELSE result

\* ReActAgent.isStuck
isStuck(msgs, threshold) ==
    IF Len(msgs) < threshold THEN FALSE
    ELSE IF Len(msgs) # 0 /\ msgs[Len(msgs)].content = EmptyContent THEN FALSE
    ELSE Cardinality({i \in 1..(Len(msgs) - 1) :
                        /\ msgs[i].role = "assistant"
                        /\ msgs[i].content = msgs[Len(msgs)].content}) >= threshold

StuckPrompt == <<"stuck">>

\* ReActAgent.handleStuckState
handleStuckState(prompt) == StuckPrompt \o prompt

\* a loop condition that does not look at the step counter
LoopConditionNoMax == state # "FINISHED" /\ interrupt # 1

\* the loop condition of Run
LoopCondition ==
    currentStep < MaxSteps /\ state # "FINISHED" /\ interrupt # 1

\* what think makes of the response: err, whether to act, the memory, toolCalls
think(msgs, tcsBefore, choice, resp) ==
    IF choice = "none"
    THEN IF Len(resp.toolCalls) > 0
         THEN [err |-> TRUE, act |-> FALSE, msgs |-> msgs, tcs |-> tcsBefore, added |-> 0]
         ELSE IF resp.content # EmptyContent
         THEN [err |-> FALSE, act |-> TRUE,
               msgs |-> AddMessage(msgs, <<AssistantMessage(resp.content)>>, MaxMessages),
               tcs |-> tcsBefore, added |-> 0]
         ELSE [err |-> FALSE, act |-> FALSE, msgs |-> msgs, tcs |-> tcsBefore, added |-> 0]
    ELSE LET assistantMsg == IF Len(resp.toolCalls) > 0
                             THEN FromToolCalls(resp.toolCalls, resp.content)
                             ELSE AssistantMessage(resp.content)
             shouldAct == IF choice = "required" /\ Len(resp.toolCalls) = 0 THEN TRUE
                          ELSE IF choice = "auto" /\ Len(resp.toolCalls) = 0
                                  /\ resp.content # EmptyContent THEN TRUE
                          ELSE Len(resp.toolCalls) > 0
         IN [err |-> FALSE, act |-> shouldAct,
             msgs |-> AddMessage(msgs, <<assistantMsg>>, MaxMessages),
             tcs |-> resp.toolCalls, added |-> Len(resp.toolCalls)]

\* the stuck handling Run does after a step that returned no error
AfterStep(msgs) ==
    IF isStuck(msgs, DuplicateThreshold)
    THEN handleStuckState(nextStepPrompt)
    ELSE nextStepPrompt

AgentInit ==
    /\ RaceIdle
    /\ BatchIdle
    /\ StreamIdle
    /\ ProvIdle
    /\ McpIdle
    /\ StuckIdle
    /\ ConnOpen
    /\ SessionIdle
    /\ LifeIdle
    /\ messages = <<>>
    /\ lastAdd = "new"
    /\ AgentIdle
    /\ nextStepPrompt \in {EmptyContent, <<"next">>}
    /\ toolChoice \in {"none", "auto", "required"}

\* Run is called: an empty prompt is rejected before the lock is taken
RunCall(p) ==
    /\ UNCHANGED <<connVars, sessVars, lifeVars, restVars>>
    /\ pc[p] = "idle"
    /\ \A q \in Runs : q < p => pc[q] # "idle"
    /\ \E prompt \in UserPrompts :
          IF prompt = EmptyContent
          THEN /\ pc' = [pc EXCEPT ![p] = "done"]
               /\ runErr' = [runErr EXCEPT ![p] = "error"]
          ELSE /\ pc' = [pc EXCEPT ![p] = "lock"]
               /\ UNCHANGED runErr
    /\ UNCHANGED <<messages, lastAdd, state, currentStep, toolCalls, interrupt,
                   nextStepPrompt, toolChoice, lock, recv, actIdx, normalized,
                   nCompleted, listenerTrue, roundToolCalls, roundToolMsgs, toolRuns,
                   exitKind>>

LockIgnored == TRUE

\* r.lock.Lock() returns only when no other Run holds the lock
LockFree == lock = 0

\* Run takes the lock, repairs the memory and adds the user message
RunEnter(p) ==
    /\ UNCHANGED <<connVars, sessVars, lifeVars, restVars>>
    /\ pc[p] = "lock"
    /\ LockFree
    /\ lock' = p
    /\ currentStep' = 0
    /\ state' = "RUNNING"
    /\ normalized' = FormatMessages(messages)
    /\ messages' = AddMessage(FormatMessages(messages), <<UserMessage(<<"p">>)>>, MaxMessages)
    /\ lastAdd' = AddKind(FormatMessages(messages), messages')
    /\ pc' = [pc EXCEPT ![p] = "loop"]
    /\ nCompleted' = 0
    /\ listenerTrue' = FALSE
    /\ roundToolCalls' = 0
    /\ roundToolMsgs' = 0
    /\ toolRuns' = 0
    /\ exitKind' = "none"
    /\ UNCHANGED <<toolCalls, interrupt, nextStepPrompt, toolChoice, recv, actIdx, runErr>>

\* a step starts: the delta reader is spawned, think adds next_step_prompt and
\* calls the LLM with the memory
ThinkAsk(p) ==
    /\ UNCHANGED <<connVars, sessVars, lifeVars, restVars>>
    /\ pc[p] = "loop"
    /\ LoopCondition
    /\ currentStep' = currentStep + 1
    /\ recv' = "running"
    /\ messages' = IF nextStepPrompt # EmptyContent
                   THEN AddMessage(messages, <<UserMessage(nextStepPrompt)>>, MaxMessages)
                   ELSE messages
    /\ lastAdd' = IF nextStepPrompt # EmptyContent THEN AddKind(messages, messages')
                  ELSE lastAdd
    /\ pc' = [pc EXCEPT ![p] = "llm"]
    /\ UNCHANGED <<state, toolCalls, interrupt, nextStepPrompt, toolChoice, lock, actIdx,
                   runErr, normalized, nCompleted, listenerTrue, roundToolCalls,
                   roundToolMsgs, toolRuns, exitKind>>

\* recvLLMMessages: the listener returns true for a delta
ListenerStops(p) ==
    /\ UNCHANGED <<connVars, sessVars, lifeVars, restVars>>
    /\ pc[p] = "llm"
    /\ recv = "running"
    /\ interrupt' = 1
    /\ recv' = "done"
    /\ listenerTrue' = TRUE
    /\ UNCHANGED <<messages, lastAdd, state, currentStep, toolCalls, nextStepPrompt,
                   toolChoice, lock, pc, actIdx, runErr, normalized, nCompleted,
                   roundToolCalls, roundToolMsgs, toolRuns, exitKind>>

\* llm.Handle returns an error or no message: the step and Run return the error
ThinkError(p) ==
    /\ UNCHANGED <<connVars, sessVars, lifeVars, restVars>>
    /\ pc[p] = "llm"
    /\ recv' = "done"
    /\ pc' = [pc EXCEPT ![p] = "exit"]
    /\ exitKind' = "error"
    /\ UNCHANGED <<messages, lastAdd, state, currentStep, toolCalls, interrupt,
                   nextStepPrompt, toolChoice, lock, actIdx, runErr, normalized,
                   nCompleted, listenerTrue, roundToolCalls, roundToolMsgs, toolRuns>>

\* llm.Handle returns a response: the rest of think, the wait for the delta
\* reader, and the part of act that runs when there is no tool call
ThinkReply(p) ==
    /\ UNCHANGED <<connVars, sessVars, lifeVars, restVars>>
    /\ pc[p] = "llm"
    /\ \E resp \in Responses :
          LET t == think(messages, toolCalls, toolChoice, resp) IN
          /\ messages' = t.msgs
          /\ lastAdd' = IF t.msgs # messages THEN AddKind(messages, t.msgs) ELSE lastAdd
          /\ toolCalls' = t.tcs
          /\ roundToolCalls' = roundToolCalls + t.added
          /\ recv' = "done"
          /\ IF t.err
             THEN /\ pc' = [pc EXCEPT ![p] = "exit"]
                  /\ exitKind' = "error"
                  /\ UNCHANGED <<state, actIdx, nextStepPrompt>>
             ELSE IF ~t.act
             THEN /\ state' = "FINISHED"
                  /\ nextStepPrompt' = AfterStep(t.msgs)
                  /\ pc' = [pc EXCEPT ![p] = "loop"]
                  /\ UNCHANGED <<actIdx, exitKind>>
             ELSE IF Len(t.tcs) = 0
             THEN IF toolChoice = "required"
                  THEN /\ pc' = [pc EXCEPT ![p] = "exit"]
                       /\ exitKind' = "error"
                       /\ UNCHANGED <<state, actIdx, nextStepPrompt>>
                  ELSE /\ nextStepPrompt' = AfterStep(t.msgs)
                       /\ pc' = [pc EXCEPT ![p] = "loop"]
                       /\ UNCHANGED <<state, actIdx, exitKind>>
             ELSE /\ pc' = [pc EXCEPT ![p] = "act"]
                  /\ actIdx' = 1
                  /\ UNCHANGED <<state, nextStepPrompt, exitKind>>
    /\ UNCHANGED <<currentStep, interrupt, toolChoice, lock, runErr, normalized,
                   nCompleted, listenerTrue, roundToolMsgs, toolRuns>>

\* act: one iteration of the loop over toolCalls
ActTool(p) ==
    /\ UNCHANGED <<connVars, sessVars, lifeVars, restVars>>
    /\ pc[p] = "act"
    /\ \E ok \in BOOLEAN :
          LET tc == toolCalls[actIdx]
              r == ExecuteTool(tc, ok)
              msgs == AddMessage(messages,
                                 <<ToolMessage(Observe(r.result), tc.name, tc.id)>>,
                                 MaxMessages)
          IN /\ messages' = msgs
             /\ IF r.state = "FINISHED"
                THEN /\ state' = "FINISHED"
                     /\ nextStepPrompt' = AfterStep(msgs)
                     /\ pc' = [pc EXCEPT ![p] = "loop"]
                     /\ actIdx' = 0
                ELSE IF actIdx = Len(toolCalls)
                THEN /\ nextStepPrompt' = AfterStep(msgs)
                     /\ pc' = [pc EXCEPT ![p] = "loop"]
                     /\ actIdx' = 0
                     /\ UNCHANGED state
                ELSE /\ actIdx' = actIdx + 1
                     /\ UNCHANGED <<state, nextStepPrompt, pc>>
    /\ lastAdd' = AddKind(messages, messages')
    /\ roundToolMsgs' = roundToolMsgs + 1
    /\ toolRuns' = toolRuns + 1
    /\ UNCHANGED <<currentStep, toolCalls, interrupt, toolChoice, lock, recv, runErr,
                   normalized, nCompleted, listenerTrue, roundToolCalls, exitKind>>

CompletedAlways(i) == 1

\* the deferred function of Run: Completed goes to the listener only when the
\* interrupt flag is 0
CompletedAtExit(i) == IF i = 0 THEN 1 ELSE 0

\* Run returns: the deferred function delivers Completed unless interrupted,
\* resets state and interrupt, and the lock is released
RunReturn(p) ==
    /\ UNCHANGED <<connVars, sessVars, lifeVars, restVars>>
    /\ \/ pc[p] = "exit"
       \/ pc[p] = "loop" /\ ~LoopCondition
    /\ nCompleted' = nCompleted + CompletedAtExit(interrupt)
    /\ exitKind' = IF pc[p] = "exit" THEN "error"
                   ELSE IF interrupt = 1 THEN "interrupt"
                   ELSE IF state = "FINISHED" THEN "finished"
                   ELSE "max_steps"
    /\ runErr' = [runErr EXCEPT ![p] = IF pc[p] = "exit" THEN "error" ELSE "nil"]
    /\ state' = "IDLE"
    /\ interrupt' = 0
    /\ lock' = 0
    /\ recv' = "none"
    /\ pc' = [pc EXCEPT ![p] = "done"]
    /\ UNCHANGED <<messages, lastAdd, currentStep, toolCalls, nextStepPrompt, toolChoice,
                   actIdx, normalized, listenerTrue, roundToolCalls, roundToolMsgs,
                   toolRuns>>

AgentNext ==
    \E p \in Runs :
        \/ RunCall(p)
        \/ RunEnter(p)
        \/ ThinkAsk(p)
        \/ ListenerStops(p)
        \/ ThinkError(p)
        \/ ThinkReply(p)
        \/ ActTool(p)
        \/ RunReturn(p)

SpecAgent == AgentInit /\ [][AgentNext]_vars

-----------------------------------------------------------------------------
(* handler.websocketConn called from several goroutines.  The underlying    *)
(* socket write and read may fail at any time (the peer is gone).           *)

ConnReturn(t) == connPc' = [connPc EXCEPT ![t] = "idle"]

NotAgentOrSession == <<memVars, agentVars, sessVars, lifeVars, restVars>>

ConnNeverClosed == FALSE

\* atomic.LoadInt32(&w.isClosed) == 1
ConnClosed == isClosed = 1

ConnLockIgnored == TRUE

\* w.lock.Lock() returns only when no caller holds the lock
ConnLockFree == connLock = 0

CASAlwaysWins == TRUE

\* atomic.CompareAndSwapInt32(&w.isClosed, 0, 1) succeeds
CASWins == isClosed = 0

\* Close, up to the lock: a failed compare-and-swap returns nil at once
CloseCall(t) ==
    /\ closeCalls' = closeCalls + 1
    /\ UNCHANGED <<sockWrites, writeRet>>
    /\ connPc[t] = "idle"
    /\ connOps < MaxConnOps
    /\ connOps' = connOps + 1
    /\ IF CASWins
       THEN /\ isClosed' = 1
            /\ connPc' = [connPc EXCEPT ![t] = "close_lock"]
            /\ UNCHANGED <<closeRets, closeErrs>>
       ELSE /\ closeRets' = closeRets + 1
            /\ UNCHANGED <<isClosed, connPc, closeErrs>>
    /\ UNCHANGED <<connLock, nSockClose>>
    /\ UNCHANGED NotAgentOrSession

\* Close takes the lock
CloseLock(t) ==
    /\ UNCHANGED connHist
    /\ connPc[t] = "close_lock"
    /\ ConnLockFree
    /\ connLock' = t
    /\ connPc' = [connPc EXCEPT ![t] = "close_io"]
    /\ UNCHANGED <<isClosed, nSockClose, connOps, closeRets, closeErrs>>
    /\ UNCHANGED NotAgentOrSession

\* Close under the lock: the close frame is written, its error dropped, and
\* the underlying conn.Close is called; its error is what Close returns
CloseSocket(t) ==
    /\ UNCHANGED connHist
    /\ connPc[t] = "close_io"
    /\ nSockClose' = nSockClose + 1
    /\ closeRets' = closeRets + 1
    /\ \E err \in BOOLEAN : closeErrs' = IF err THEN closeErrs + 1 ELSE closeErrs
    /\ connLock' = 0
    /\ ConnReturn(t)
    /\ UNCHANGED <<isClosed, connOps>>
    /\ UNCHANGED NotAgentOrSession

\* WriteMessage, up to the lock
WriteCall(t) ==
    /\ connPc[t] = "idle"
    /\ connOps < MaxConnOps
    /\ connOps' = connOps + 1
    /\ IF ConnClosed
       THEN /\ writeRet' = [writeRet EXCEPT ![t] = "closed"]
            /\ UNCHANGED connPc
       ELSE /\ connPc' = [connPc EXCEPT ![t] = "write_lock"]
            /\ UNCHANGED writeRet
    /\ UNCHANGED <<isClosed, connLock, nSockClose, closeRets, closeErrs, closeCalls,
                   sockWrites>>
    /\ UNCHANGED NotAgentOrSession

\* WriteMessage takes the lock
WriteLock(t) ==
    /\ UNCHANGED connHist
    /\ connPc[t] = "write_lock"
    /\ ConnLockFree
    /\ connLock' = t
    /\ connPc' = [connPc EXCEPT ![t] = "write_io"]
    /\ UNCHANGED <<isClosed, nSockClose, connOps, closeRets, closeErrs>>
    /\ UNCHANGED NotAgentOrSession

\* WriteMessage under the lock: the flag is read again, then the socket write;
\* a failed write marks the connection closed
WriteSocket(t) ==
    /\ connPc[t] = "write_io"
    /\ IF ConnClosed
       THEN /\ writeRet' = [writeRet EXCEPT ![t] = "closed"]
            /\ UNCHANGED <<isClosed, sockWrites>>
       ELSE /\ sockWrites' = sockWrites + 1
            /\ \E ok \in BOOLEAN :
                  /\ isClosed' = IF ok THEN isClosed ELSE 1
                  /\ writeRet' = [writeRet EXCEPT ![t] = IF ok THEN "nil" ELSE "closed"]
    /\ UNCHANGED closeCalls
    /\ connLock' = 0
    /\ ConnReturn(t)
    /\ UNCHANGED <<nSockClose, connOps, closeRets, closeErrs>>
    /\ UNCHANGED NotAgentOrSession

\* ReadMessage up to the socket read; only one goroutine reads at a time
ReadCall(t) ==
    /\ UNCHANGED connHist
    /\ connPc[t] = "idle"
    /\ \A u \in Callers : connPc[u] # "read"
    /\ connOps < MaxConnOps
    /\ connOps' = connOps + 1
    /\ IF isClosed = 1
       THEN UNCHANGED connPc
       ELSE connPc' = [connPc EXCEPT ![t] = "read"]
    /\ UNCHANGED <<isClosed, connLock, nSockClose, closeRets, closeErrs>>
    /\ UNCHANGED NotAgentOrSession

\* the socket read returns: a failed read marks the connection closed
ReadSocket(t) ==
    /\ UNCHANGED connHist
    /\ connPc[t] = "read"
    /\ \E ok \in BOOLEAN : isClosed' = IF ok THEN isClosed ELSE 1
    /\ ConnReturn(t)
    /\ UNCHANGED <<connLock, nSockClose, connOps, closeRets, closeErrs>>
    /\ UNCHANGED NotAgentOrSession

ConnInit ==
    /\ RaceIdle
    /\ BatchIdle
    /\ StreamIdle
    /\ ProvIdle
    /\ McpIdle
    /\ StuckIdle
    /\ ConnOpen
    /\ SessionIdle
    /\ LifeIdle
    /\ messages = <<>>
    /\ lastAdd = "new"
    /\ AgentIdle
    /\ nextStepPrompt = <<>>
    /\ toolChoice = "auto"

ConnNext ==
    \E t \in Callers :
        \/ CloseCall(t)
        \/ CloseLock(t)
        \/ CloseSocket(t)
        \/ WriteCall(t)
        \/ WriteLock(t)
        \/ WriteSocket(t)
        \/ ReadCall(t)
        \/ ReadSocket(t)

SpecConn == ConnInit /\ [][ConnNext]_vars

\* C5: once a Close call has returned, the underlying socket has been closed
\* exactly once, and no Close call but the one that closed it returns an error
C5_ExactlyOneUnderlyingClose ==
    /\ nSockClose <= 1
    /\ closeErrs <= nSockClose
    /\ (closeRets > 0 /\ \A t \in Callers : connPc[t] \notin {"close_lock", "close_io"})
          => nSockClose = 1

-----------------------------------------------------------------------------
(* handler.Handler: the text pump, the Runs it starts, and the streaming    *)
(* TTS provider (DoubaoStream) with its background reader.  A Run is seen   *)
(* here at the grain of the deltas it passes to the listener.               *)

\* a frame written to the client; state is the state of a tts frame, 0
\* (Processing) on every other frame
Frame(kind, round) == [kind |-> kind, round |-> round, state |-> 0]

\* the tts frame with state Completed
CompletedFrame(round) == [kind |-> "tts", round |-> round, state |-> 1]

NotSession == <<memVars, connVars, lifeVars, restVars, currentStep, toolCalls, interrupt, nextStepPrompt,
                toolChoice, recv, actIdx, runErr, normalized, nCompleted, listenerTrue,
                roundToolCalls, roundToolMsgs, toolRuns, exitKind>>

\* DoubaoStream.Reset: the connection is closed, which ends its reader
TtsReset ==
    /\ ttsRunning' = FALSE
    /\ ttsQueue' = <<>>
    /\ ttsExiting' = IF ttsRunning THEN ttsExiting \cup {ttsOwner} ELSE ttsExiting
    /\ UNCHANGED ttsOwner

\* DoubaoStream.ToTTS for a text of chat round r: a connection and its reader
\* are started when none is running; an empty text is not sent
ToTTS(r, empty) ==
    /\ ttsRunning' = TRUE
    /\ ttsOwner' = IF ttsRunning THEN ttsOwner ELSE r
    /\ ttsQueue' = IF empty THEN ttsQueue ELSE Append(ttsQueue, r)
    /\ UNCHANGED ttsExiting

OnTtsResultNoCheck(intr, empty, completed) ==
    IF empty /\ ~completed
    THEN [write |-> FALSE, reset |-> FALSE, ret |-> FALSE]
    ELSE [write |-> TRUE, reset |-> completed, ret |-> completed]

\* Handler.OnAgentResult passes the text to the TTS provider when there is one
OnAgentResultTts(r, empty) ==
    IF ttsConfigured
    THEN ToTTS(r, empty) /\ ttsInvoked' = TRUE
    ELSE UNCHANGED <<ttsRunning, ttsOwner, ttsQueue, ttsExiting, ttsInvoked>>

\* Handler.OnTtsResult: whether a tts frame is written, whether the TTS
\* provider is reset, and what is returned
OnTtsResult(intr, empty, completed) ==
    IF intr = 1
    THEN [write |-> FALSE, reset |-> FALSE, ret |-> FALSE]
    ELSE IF empty /\ ~completed
    THEN [write |-> FALSE, reset |-> FALSE, ret |-> FALSE]
    ELSE [write |-> TRUE, reset |-> completed, ret |-> completed]

\* the record of a call of OnTtsResult
TtsResultOf(intr, completed, o) ==
    [intr |-> intr, completed |-> completed, write |-> o.write, reset |-> o.reset,
     ret |-> o.ret, called |-> TRUE]

\* Handler.handleAbortChat
handleAbortChat ==
    /\ hInterrupt' = 1
    /\ TtsReset

\* an abort that also stops the receiving of client messages
HandleAbortStopsRecv ==
    /\ pumpPc = "idle"
    /\ stopRecv = 0 /\ ~sessClosed
    /\ chatRound > 0
    /\ handleAbortChat
    /\ stopRecv' = 1
    /\ UNCHANGED <<chatRound, pumpPc, frames, deltas, lock, pc, state, ttsResult>>
    /\ UNCHANGED <<enableTts, ttsConfigured, ttsInvoked, closeAfterChat, sessClosed,
                   closeRound, closeCause, asrPc>>
    /\ UNCHANGED NotSession

\* the text pump handles {"type":"abort"}
HandleAbort ==
    /\ pumpPc = "idle"
    /\ stopRecv = 0 /\ ~sessClosed
    /\ chatRound > 0
    /\ handleAbortChat
    /\ UNCHANGED <<chatRound, pumpPc, frames, deltas, lock, pc, state, ttsResult>>
    /\ UNCHANGED <<enableTts, ttsConfigured, ttsInvoked, shutVars>>
    /\ UNCHANGED NotSession

\* the text pump handles {"type":"chat"}: first handleAbortChat
HandleChatAbort ==
    /\ pumpPc = "idle"
    /\ stopRecv = 0 /\ ~sessClosed
    /\ chatRound < MaxRuns
    /\ handleAbortChat
    /\ pumpPc' = "chat"
    /\ UNCHANGED <<chatRound, frames, deltas, lock, pc, state, ttsResult>>
    /\ UNCHANGED <<enableTts, ttsConfigured, ttsInvoked, shutVars>>
    /\ UNCHANGED NotSession

\* Handler.handleChatMessage with a non-empty text: the round is counted, a
\* text that is an exit phrase sets closeAfterChat and stopRecv, the
\* interrupt flag is cleared and Run is started in a goroutine
handleChatMessage(exit, cause) ==
    /\ chatRound' = chatRound + 1
    /\ IF exit
       THEN /\ closeAfterChat' = TRUE
            /\ stopRecv' = 1
            /\ closeRound' = chatRound + 1
            /\ closeCause' = cause
       ELSE UNCHANGED <<closeAfterChat, stopRecv, closeRound, closeCause>>
    /\ hInterrupt' = 0
    /\ pc' = [pc EXCEPT ![chatRound + 1] = "lock"]

\* the text pump, after handleAbortChat, calls handleChatMessage
HandleChatMessage(exit) ==
    /\ pumpPc = "chat"
    /\ handleChatMessage(exit, "exit")
    /\ pumpPc' = "idle"
    /\ UNCHANGED <<frames, deltas, lock, state, ttsRunning, ttsOwner, ttsQueue, ttsExiting,
                   ttsResult>>
    /\ UNCHANGED <<enableTts, ttsConfigured, ttsInvoked, sessClosed, asrPc>>
    /\ UNCHANGED NotSession

\* a send function writes its frame unless the connection is closed
Written(fs, f) == IF sessClosed THEN fs ELSE Append(fs, f)

\* Run of chat round r takes the agent's lock
SessRunEnter(r) ==
    /\ pc[r] = "lock"
    /\ LockFree
    /\ lock' = r
    /\ state' = "RUNNING"
    /\ pc' = [pc EXCEPT ![r] = "llm"]
    /\ UNCHANGED sessVars
    /\ UNCHANGED NotSession

\* recvLLMMessages passes a delta to Handler.OnAgentResult: a chat frame is
\* written and the text goes to the TTS provider
SessDelta(r) ==
    /\ pc[r] = "llm"
    /\ deltas[r] < MaxDeltas
    /\ Len(frames) < MaxFrames
    /\ deltas' = [deltas EXCEPT ![r] = deltas[r] + 1]
    /\ frames' = Written(frames, Frame("chat", r))
    /\ OnAgentResultTts(r, FALSE)
    /\ UNCHANGED <<hInterrupt, chatRound, pumpPc, lock, pc, state, ttsResult>>
    /\ UNCHANGED <<enableTts, ttsConfigured, shutVars>>
    /\ UNCHANGED NotSession

\* Run returns: its deferred function passes ("", Completed) to
\* Handler.OnAgentResult, which writes a chat frame and calls ToTTS("")
SessRunReturn(r) ==
    /\ pc[r] = "llm"
    /\ Len(frames) < MaxFrames
    /\ frames' = Written(frames, Frame("chat", r))
    /\ OnAgentResultTts(r, TRUE)
    /\ lock' = 0
    /\ state' = "IDLE"
    /\ pc' = [pc EXCEPT ![r] = "returned"]
    /\ UNCHANGED <<hInterrupt, chatRound, pumpPc, deltas, ttsResult>>
    /\ UNCHANGED <<enableTts, ttsConfigured, shutVars>>
    /\ UNCHANGED NotSession

\* the body of Handler.close as the session sees it: the connection is
\* closed, the ASR provider is reset, which ends its reader, and the TTS
\* provider is reset
SessClose ==
    /\ sessClosed' = TRUE
    /\ asrPc' = IF asrPc = "reading" THEN "defer" ELSE asrPc
    /\ TtsReset

\* the goroutine that ran Run of chat round r: after Run has returned it
\* calls Handler.close when closeAfterChat is set
SessAfterRun(r) ==
    /\ pc[r] = "returned"
    /\ pc' = [pc EXCEPT ![r] = "done"]
    /\ IF closeAfterChat /\ ~sessClosed
       THEN SessClose
       ELSE UNCHANGED <<sessClosed, asrPc, ttsRunning, ttsOwner, ttsQueue, ttsExiting>>
    /\ UNCHANGED <<hInterrupt, chatRound, pumpPc, frames, deltas, lock, state, ttsResult>>
    /\ UNCHANGED <<enableTts, ttsConfigured, ttsInvoked, closeAfterChat, stopRecv,
                   closeRound, closeCause>>
    /\ UNCHANGED NotSession

\* the ASR reader calls Handler.OnAsrResult while the provider's silence
\* count is 2 or more: no asr frame is sent, closeAfterChat and stopRecv are
\* set, the ASR provider is reset and handleChatMessage is called with the
\* prompt that ends the conversation; true is returned, so the reader leaves
\* its loop.  Its deferred function has a call to make unless the result was
\* the backend's last one.
AsrSilence(last) ==
    /\ asrPc = "reading"
    /\ ~sessClosed
    /\ chatRound < MaxRuns
    /\ handleChatMessage(TRUE, "silence")
    /\ asrPc' = IF last THEN "exited" ELSE "defer"
    /\ UNCHANGED <<pumpPc, frames, deltas, lock, state, ttsRunning, ttsOwner, ttsQueue,
                   ttsExiting, ttsResult>>
    /\ UNCHANGED <<enableTts, ttsConfigured, ttsInvoked, sessClosed>>
    /\ UNCHANGED NotSession

\* the deferred function of the ASR reader calls
\* Handler.OnAsrResult("", Completed) unless the backend's final result was
\* passed on.  The silence count is 0 after the reset: an asr frame is sent
\* (sendAsrMessage returns nil on a closed connection too), the provider is
\* reset and handleChatMessage is called with the empty text, which calls
\* handleAbortChat.
AsrDeferred ==
    /\ asrPc = "defer"
    /\ Len(frames) < MaxFrames
    /\ frames' = Written(frames, Frame("asr", chatRound))
    /\ handleAbortChat
    /\ asrPc' = "exited"
    /\ UNCHANGED <<chatRound, pumpPc, deltas, lock, pc, state, ttsResult>>
    /\ UNCHANGED <<enableTts, ttsConfigured, ttsInvoked, closeAfterChat, stopRecv,
                   sessClosed, closeRound, closeCause>>
    /\ UNCHANGED NotSession

\* the TTS reader receives audio and calls Handler.OnTtsResult(data, Processing);
\* the reader goes on reading when false is returned
TtsAudio ==
    /\ ttsRunning
    /\ ttsQueue # <<>>
    /\ Len(frames) < MaxFrames
    /\ ttsQueue' = Tail(ttsQueue)
    /\ LET o == OnTtsResult(hInterrupt, FALSE, FALSE)
       IN /\ frames' = IF o.write THEN Written(frames, Frame("tts", Head(ttsQueue)))
                       ELSE frames
          /\ ttsResult' = TtsResultOf(hInterrupt, FALSE, o)
    /\ UNCHANGED <<hInterrupt, chatRound, pumpPc, deltas, ttsRunning, ttsOwner,
                   ttsExiting, lock, pc, state>>
    /\ UNCHANGED <<enableTts, ttsConfigured, ttsInvoked, shutVars>>
    /\ UNCHANGED NotSession

\* a TTS reader whose connection was closed leaves readMessage: its deferred
\* function calls Handler.OnTtsResult(nil, Completed), which writes a tts frame
\* and resets the provider unless the interrupt flag is set; the deferred
\* function then marks the provider not running and closes whatever
\* connection the provider holds
TtsReaderExit(r) ==
    /\ r \in ttsExiting
    /\ Len(frames) < MaxFrames
    /\ LET o == OnTtsResult(hInterrupt, TRUE, TRUE)
       IN /\ frames' = IF o.write THEN Written(frames, CompletedFrame(r)) ELSE frames
          /\ ttsResult' = TtsResultOf(hInterrupt, TRUE, o)
    /\ ttsRunning' = FALSE
    /\ ttsQueue' = <<>>
    /\ ttsExiting' = (ttsExiting \ {r}) \cup (IF ttsRunning THEN {ttsOwner} ELSE {})
    /\ UNCHANGED <<hInterrupt, chatRound, pumpPc, deltas, ttsOwner, lock, pc, state>>
    /\ UNCHANGED <<enableTts, ttsConfigured, ttsInvoked, shutVars>>
    /\ UNCHANGED NotSession

SessionInit ==
    /\ RaceIdle
    /\ BatchIdle
    /\ StreamIdle
    /\ ProvIdle
    /\ McpIdle
    /\ StuckIdle
    /\ ConnOpen
    /\ SessionStart
    /\ enableTts \in BOOLEAN
    /\ ttsConfigured \in BOOLEAN
    /\ asrPc \in {"off", "reading"}
    /\ LifeIdle
    /\ messages = <<>>
    /\ lastAdd = "new"
    /\ AgentIdle
    /\ nextStepPrompt = <<>>
    /\ toolChoice = "auto"

SessionNext ==
    \/ HandleAbort
    \/ HandleChatAbort
    \/ \E exit \in BOOLEAN : HandleChatMessage(exit)
    \/ TtsAudio
    \/ \E last \in BOOLEAN : AsrSilence(last)
    \/ AsrDeferred
    \/ \E r \in Runs :
          \/ SessRunEnter(r)
          \/ SessDelta(r)
          \/ SessRunReturn(r)
          \/ SessAfterRun(r)
          \/ TtsReaderExit(r)

SpecSession == SessionInit /\ [][SessionNext]_vars

\* The Go scheduler runs every goroutine that can take a step: a Run that was
\* started takes the lock and returns, and the TTS reader delivers the audio
\* it has and leaves once its connection is closed.  Nothing obliges the
\* client to send another message.
SessionFairness ==
    /\ WF_vars(TtsAudio)
    /\ WF_vars(AsrDeferred)
    /\ \A r \in Runs :
          /\ WF_vars(SessRunEnter(r))
          /\ WF_vars(SessRunReturn(r))
          /\ WF_vars(SessAfterRun(r))
          /\ WF_vars(TtsReaderExit(r))

SpecSessionFair == SpecSession /\ SessionFairness

\* the frames that belong to a chat round
RoundFrames(fs) == SelectSeq(fs, LAMBDA f : f.kind \in {"chat", "tts"})

\* C3: no chat or tts frame of an earlier round is written after a chat or
\* tts frame of a later round
C3_NoEarlierRoundFrameAfterLater ==
    \A i, j \in 1..Len(RoundFrames(frames)) :
        i < j => RoundFrames(frames)[i].round <= RoundFrames(frames)[j].round

ChatFrames(fs) == Len(SelectSeq(fs, LAMBDA f : f.kind = "chat"))

\* C10: while the handler's interrupt flag is set no chat frame is written
C10_NoChatFrameWhileInterrupted ==
    [][hInterrupt = 1 => ChatFrames(frames') = ChatFrames(frames)]_vars

-----------------------------------------------------------------------------
(* handler.Handler after the handshake: the conn reader                     *)
(* (listenClientMessages), the text pump and the audio pump, the two queues *)
(* between them, and Handler.close.  All three providers are configured.    *)

\* what the lifecycle leaves alone
LifeRest == <<memVars, agentVars, restVars, connLock, connPc, connOps, closeRets, closeErrs,
              closeCalls, sockWrites, writeRet, chatRound, pumpPc, frames, deltas,
              ttsResult, enableTts, ttsConfigured, ttsInvoked, shutVars>>

TtsVars == <<ttsRunning, ttsOwner, ttsQueue, ttsExiting>>

\* the steps of the body of Handler.close, in the order of the code
CloseOrder == <<"conn", "stop", "asr", "agent", "tts">>

\* sync.Once that lets every caller run the body
OnceIgnored == TRUE

\* sync.Once.Do runs the body for the first caller only
OnceFresh == onceState = "fresh"

\* the stop channel is closed
Stopped == nStopClose > 0

\* Handler.close is called: the first caller starts the body, a caller that
\* arrives while the body runs waits for it, a later caller returns at once
CloseEnter(c) ==
    /\ closerPc[c] = "idle"
    /\ c = "pump" => textPumpPc = "close"
    /\ IF OnceFresh
       THEN /\ onceState' = "running"
            /\ closerPc' = [closerPc EXCEPT ![c] = "conn"]
       ELSE /\ closerPc' = [closerPc EXCEPT ![c] = IF onceState = "running"
                                                   THEN "wait" ELSE "done"]
            /\ UNCHANGED onceState
    /\ UNCHANGED <<closeLog, nStopClose, readerPc, readerMsg, textQueue, audioQueue,
                   textPumpPc, audioPumpPc, nReads, readFailed, received, errFrames,
                   ctxDone>>
    /\ UNCHANGED <<isClosed, nSockClose, hInterrupt, TtsVars, LifeRest>>

\* one step of the body: conn.Close, close(stopChan), then the Reset of the
\* ASR provider, of the agent and of the TTS provider
CloseBody(c) ==
    /\ closerPc[c] \in {CloseOrder[i] : i \in 1..Len(CloseOrder)}
    /\ nStopClose < 2
    /\ closeLog' = Append(closeLog, closerPc[c])
    /\ IF closerPc[c] = "conn" /\ isClosed = 0
       THEN isClosed' = 1 /\ nSockClose' = nSockClose + 1
       ELSE UNCHANGED <<isClosed, nSockClose>>
    /\ nStopClose' = IF closerPc[c] = "stop" THEN nStopClose + 1 ELSE nStopClose
    /\ IF closerPc[c] = "tts" THEN TtsReset ELSE UNCHANGED TtsVars
    /\ LET i == CHOOSE j \in 1..Len(CloseOrder) : CloseOrder[j] = closerPc[c]
       IN  IF i < Len(CloseOrder)
           THEN /\ closerPc' = [closerPc EXCEPT ![c] = CloseOrder[i + 1]]
                /\ UNCHANGED onceState
           ELSE /\ closerPc' = [closerPc EXCEPT ![c] = "done"]
                /\ onceState' = "done"
    /\ UNCHANGED <<readerPc, readerMsg, textQueue, audioQueue, textPumpPc, audioPumpPc,
                   nReads, readFailed, received, errFrames, ctxDone>>
    /\ UNCHANGED <<hInterrupt, LifeRest>>

\* a caller that waited returns once the body is done
CloseWake(c) ==
    /\ closerPc[c] = "wait"
    /\ onceState = "done"
    /\ closerPc' = [closerPc EXCEPT ![c] = "done"]
    /\ UNCHANGED <<onceState, closeLog, nStopClose, readerPc, readerMsg, textQueue,
                   audioQueue, textPumpPc, audioPumpPc, nReads, readFailed, received,
                   errFrames, ctxDone>>
    /\ UNCHANGED <<isClosed, nSockClose, hInterrupt, TtsVars, LifeRest>>

\* listenClientMessages at its select: a closed stop channel or a cancelled
\* context ends it, otherwise the default branch calls ReadMessage, which
\* fails at once on a connection marked closed
ReaderSelect ==
    /\ readerPc = "select"
    /\ IF Stopped \/ ctxDone
       THEN readerPc' = "exited" /\ UNCHANGED readFailed
       ELSE IF isClosed = 1
       THEN readerPc' = "exited" /\ readFailed' = TRUE
       ELSE readerPc' = "read" /\ UNCHANGED readFailed
    /\ UNCHANGED <<onceState, closerPc, closeLog, nStopClose, readerMsg, textQueue,
                   audioQueue, textPumpPc, audioPumpPc, nReads, received, errFrames,
                   ctxDone>>
    /\ UNCHANGED <<isClosed, nSockClose, hInterrupt, TtsVars, LifeRest>>

\* the socket read fails (the peer is gone, the socket was closed, or the
\* read deadline passed): the connection is marked closed and the reader
\* returns
ReaderReadFails ==
    /\ readerPc = "read"
    /\ isClosed' = 1
    /\ readFailed' = TRUE
    /\ readerPc' = "exited"
    /\ UNCHANGED <<onceState, closerPc, closeLog, nStopClose, readerMsg, textQueue,
                   audioQueue, textPumpPc, audioPumpPc, nReads, received, errFrames,
                   ctxDone>>
    /\ UNCHANGED <<nSockClose, hInterrupt, TtsVars, LifeRest>>

\* the socket read returns a message and handleMessage looks at its kind: a
\* text goes to the text queue, audio to the audio queue when there is one,
\* anything else is an error that the reader logs
ReaderRead(k) ==
    /\ readerPc = "read"
    /\ nSockClose = 0
    /\ nReads < MaxReads
    /\ nReads' = nReads + 1
    /\ IF k \in {"malformed", "unknown", "abort"}
       THEN readerPc' = "send_text" /\ readerMsg' = k /\ UNCHANGED received
       ELSE IF k = "audio" /\ audioPumpPc # "none"
       THEN readerPc' = "send_audio" /\ readerMsg' = k /\ UNCHANGED received
       ELSE /\ readerPc' = "select"
            /\ received' = [received EXCEPT ![k] = @ + 1]
            /\ UNCHANGED readerMsg
    /\ UNCHANGED <<onceState, closerPc, closeLog, nStopClose, textQueue, audioQueue,
                   textPumpPc, audioPumpPc, readFailed, errFrames, ctxDone>>
    /\ UNCHANGED <<isClosed, nSockClose, hInterrupt, TtsVars, LifeRest>>

\* the send on clientTextQueue goes through when the queue has room
ReaderSendText ==
    /\ readerPc = "send_text"
    /\ Len(textQueue) < QueueCap
    /\ textQueue' = Append(textQueue, readerMsg)
    /\ readerMsg' = "none"
    /\ readerPc' = "select"
    /\ UNCHANGED <<onceState, closerPc, closeLog, nStopClose, audioQueue, textPumpPc,
                   audioPumpPc, nReads, readFailed, received, errFrames, ctxDone>>
    /\ UNCHANGED <<isClosed, nSockClose, hInterrupt, TtsVars, LifeRest>>

\* the send on clientAudioQueue goes through when the queue has room
ReaderSendAudio ==
    /\ readerPc = "send_audio"
    /\ audioQueue < QueueCap
    /\ audioQueue' = audioQueue + 1
    /\ readerMsg' = "none"
    /\ readerPc' = "select"
    /\ UNCHANGED <<onceState, closerPc, closeLog, nStopClose, textQueue, textPumpPc,
                   audioPumpPc, nReads, readFailed, received, errFrames, ctxDone>>
    /\ UNCHANGED <<isClosed, nSockClose, hInterrupt, TtsVars, LifeRest>>

\* Handle has returned, and with it the HTTP handler: the request context is
\* cancelled
CtxCancel ==
    /\ readerPc = "exited"
    /\ ~ctxDone
    /\ ctxDone' = TRUE
    /\ UNCHANGED <<onceState, closerPc, closeLog, nStopClose, readerPc, readerMsg,
                   textQueue, audioQueue, textPumpPc, audioPumpPc, nReads, readFailed,
                   received, errFrames>>
    /\ UNCHANGED <<isClosed, nSockClose, hInterrupt, TtsVars, LifeRest>>

\* listenClientTextMessages takes the stop or the context branch of its select
TextPumpStop ==
    /\ textPumpPc = "select"
    /\ Stopped \/ ctxDone
    /\ textPumpPc' = "exited"
    /\ UNCHANGED <<onceState, closerPc, closeLog, nStopClose, readerPc, readerMsg,
                   textQueue, audioQueue, audioPumpPc, nReads, readFailed, received,
                   errFrames, ctxDone>>
    /\ UNCHANGED <<isClosed, nSockClose, hInterrupt, TtsVars, LifeRest>>

\* whether handleClientTextMessages sends an error frame for a text
SendsErrorFrame(k) == k = "malformed"

\* listenClientTextMessages takes a text from the queue and
\* handleClientTextMessages handles it: a text that is no JSON is answered by
\* an error frame, an abort by handleAbortChat, an unknown type by an error
\* that the pump logs.  A failed write of the error frame marks the
\* connection closed and the pump calls Handler.close.
TextPumpRecv ==
    /\ textPumpPc = "select"
    /\ textQueue # <<>>
    /\ textQueue' = Tail(textQueue)
    /\ received' = [received EXCEPT ![Head(textQueue)] = @ + 1]
    /\ IF SendsErrorFrame(Head(textQueue))
       THEN \E ok \in BOOLEAN :
               IF ok /\ isClosed = 0
               THEN /\ errFrames' = [errFrames EXCEPT ![Head(textQueue)] = @ + 1]
                    /\ UNCHANGED <<isClosed, textPumpPc>>
               ELSE /\ isClosed' = 1
                    /\ textPumpPc' = "close"
                    /\ UNCHANGED errFrames
       ELSE UNCHANGED <<errFrames, isClosed, textPumpPc>>
    /\ IF Head(textQueue) = "abort"
       THEN handleAbortChat
       ELSE UNCHANGED <<hInterrupt, TtsVars>>
    /\ UNCHANGED <<onceState, closerPc, closeLog, nStopClose, readerPc, readerMsg,
                   audioQueue, audioPumpPc, nReads, readFailed, ctxDone>>
    /\ UNCHANGED <<nSockClose, LifeRest>>

\* Handler.close has returned to the text pump, which goes back to its select
TextPumpResume ==
    /\ textPumpPc = "close"
    /\ closerPc["pump"] = "done"
    /\ textPumpPc' = "select"
    /\ closerPc' = [closerPc EXCEPT !["pump"] = "idle"]
    /\ UNCHANGED <<onceState, closeLog, nStopClose, readerPc, readerMsg, textQueue,
                   audioQueue, audioPumpPc, nReads, readFailed, received, errFrames,
                   ctxDone>>
    /\ UNCHANGED <<isClosed, nSockClose, hInterrupt, TtsVars, LifeRest>>

\* listenClientAudioMessages takes the stop or the context branch of its select
AudioPumpStop ==
    /\ audioPumpPc = "select"
    /\ Stopped \/ ctxDone
    /\ audioPumpPc' = "exited"
    /\ UNCHANGED <<onceState, closerPc, closeLog, nStopClose, readerPc, readerMsg,
                   textQueue, audioQueue, textPumpPc, nReads, readFailed, received,
                   errFrames, ctxDone>>
    /\ UNCHANGED <<isClosed, nSockClose, hInterrupt, TtsVars, LifeRest>>

\* listenClientAudioMessages takes a chunk from the queue and passes it to
\* the ASR provider
AudioPumpRecv ==
    /\ audioPumpPc = "select"
    /\ audioQueue > 0
    /\ audioQueue' = audioQueue - 1
    /\ received' = [received EXCEPT !["audio"] = @ + 1]
    /\ UNCHANGED <<onceState, closerPc, closeLog, nStopClose, readerPc, readerMsg,
                   textQueue, textPumpPc, audioPumpPc, nReads, readFailed, errFrames,
                   ctxDone>>
    /\ UNCHANGED <<isClosed, nSockClose, hInterrupt, TtsVars, LifeRest>>

\* the hello message chose whether the audio pump exists
LifeInit ==
    /\ RaceIdle
    /\ BatchIdle
    /\ StreamIdle
    /\ ProvIdle
    /\ McpIdle
    /\ StuckIdle
    /\ ConnOpen
    /\ SessionIdle
    /\ messages = <<>>
    /\ lastAdd = "new"
    /\ AgentIdle
    /\ nextStepPrompt = <<>>
    /\ toolChoice = "auto"
    /\ onceState = "fresh"
    /\ closerPc = [c \in Closers |-> "idle"]
    /\ closeLog = <<>>
    /\ nStopClose = 0
    /\ readerPc = "select"
    /\ readerMsg = "none"
    /\ textQueue = <<>>
    /\ audioQueue = 0
    /\ textPumpPc = "select"
    /\ audioPumpPc \in {"none", "select"}
    /\ nReads = 0
    /\ readFailed = FALSE
    /\ received = [k \in InputKinds |-> 0]
    /\ errFrames = [k \in InputKinds |-> 0]
    /\ ctxDone = FALSE

LifeNext ==
    \/ \E c \in Closers :
          \/ CloseEnter(c)
          \/ CloseBody(c)
          \/ CloseWake(c)
    \/ ReaderSelect
    \/ ReaderReadFails
    \/ \E k \in InputKinds : ReaderRead(k)
    \/ ReaderSendText
    \/ ReaderSendAudio
    \/ CtxCancel
    \/ TextPumpStop
    \/ TextPumpRecv
    \/ TextPumpResume
    \/ AudioPumpStop
    \/ AudioPumpRecv

SpecLife == LifeInit /\ [][LifeNext]_vars

\* The Go scheduler runs every goroutine that can take a step, a socket read
\* returns at the latest when its deadline passes, the server cancels the
\* request context once Handle has returned, and a select whose stop branch
\* stays ready takes it sooner or later, since it chooses at random among
\* the ready branches.  Nothing obliges the goroutine around Run to call
\* Handler.close.
LifeFairness ==
    /\ WF_vars(ReaderSelect)
    /\ WF_vars(ReaderReadFails \/ \E k \in InputKinds : ReaderRead(k))
    /\ WF_vars(ReaderSendText)
    /\ WF_vars(ReaderSendAudio)
    /\ WF_vars(CtxCancel)
    /\ SF_vars(TextPumpStop)
    /\ SF_vars(AudioPumpStop)
    /\ WF_vars(TextPumpResume)
    /\ WF_vars(CloseEnter("pump"))
    /\ \A c \in Closers : WF_vars(CloseBody(c)) /\ WF_vars(CloseWake(c))

SpecLifeFair == SpecLife /\ LifeFairness

-----------------------------------------------------------------------------
(* The ASR and TTS providers: one provider, the sessions it starts one      *)
(* after the other, the reader of a session (readMessage) and Reset.  The   *)
(* listener is any listener: what it returns is chosen freely.              *)

TtsKinds == {"doubao", "doubao_stream", "cosy_voice"}

AsrKinds == {"doubao_asr", "paraformer"}

\* the sentence-batched Doubao has no connection field and no running flag:
\* its reader runs inside ToTTS on a connection of its own
Streaming(k) == k # "doubao"

\* what the backend does next: a result or audio chunk, an empty result
\* after the idle time, the final message of the session, a failed read, a
\* message that cannot be parsed, an error reported by the backend
BackendEvents == {"data", "silent", "last", "read_error", "parse_error", "error_code"}

ErrorEvents == {"read_error", "parse_error", "error_code"}

Bump(n) == IF n < MaxCount THEN n + 1 ELSE n

\* closeConnection of a streaming provider: the connection is closed and
\* forgotten.  DoubaoStream first asks the backend to finish the session and
\* the connection, and keeps the connection when that fails (closeOk false).
closeConnection(k, s, closeOk) ==
    IF k = "doubao_stream" /\ ~closeOk THEN s ELSE [s EXCEPT !.conn = FALSE]

\* the deferred function of readMessage
Deferred(k, s, closeOk) ==
    IF k \in {"doubao_stream", "doubao_asr"}
    THEN closeConnection(k, [s EXCEPT !.completed = IF s.sent THEN @ ELSE @ + 1,
                                      !.running = FALSE, !.pc = "exited"], closeOk)
    ELSE IF k = "doubao"
    THEN [s EXCEPT !.pc = "exited", !.text = 0]
    ELSE closeConnection(k, [s EXCEPT !.running = FALSE, !.pc = "exited"], closeOk)

\* setErrorAndStop, setErrorAndClose
SetError(k, s, closeOk) ==
    IF Streaming(k) THEN closeConnection(k, [s EXCEPT !.running = FALSE], closeOk) ELSE s

\* the check at the head of the read loop
LoopExits(k, s) ==
    IF k \in {"doubao_stream", "doubao_asr"} THEN ~s.running \/ ~s.conn
    ELSE IF k \in {"cosy_voice", "paraformer"} THEN ~s.running /\ ~s.conn
    ELSE FALSE

Delivered(s) == [s EXCEPT !.completed = @ + 1]

\* one turn of the read loop of readMessage for backend event e, with a
\* listener that returns ret
readMessage(k, e, ret, closeOk, s) ==
    IF LoopExits(k, s) THEN Deferred(k, s, closeOk)
    ELSE IF e = "read_error" THEN Deferred(k, SetError(k, s, closeOk), closeOk)
    ELSE IF e = "parse_error"
    THEN IF k \in {"cosy_voice", "paraformer"} THEN s ELSE Deferred(k, SetError(k, s, closeOk), closeOk)
    ELSE IF e = "error_code"
    THEN IF k \in {"cosy_voice", "paraformer"} THEN Deferred(k, Delivered(SetError(k, s, closeOk)), closeOk)
         ELSE IF k = "doubao_stream" THEN Deferred(k, s, closeOk)
         ELSE Deferred(k, SetError(k, s, closeOk), closeOk)
    ELSE IF e \in {"data", "silent"}
    THEN LET t == IF e = "silent" THEN [s EXCEPT !.silence = Bump(@)]
                  ELSE [s EXCEPT !.silence = 0]
         IN  IF ret THEN Deferred(k, t, closeOk) ELSE t
    ELSE IF k = "doubao_stream" THEN Deferred(k, Delivered([s EXCEPT !.sent = TRUE]), closeOk)
    ELSE IF k = "doubao_asr"
    THEN LET t == Delivered([s EXCEPT !.sent = TRUE])
         IN  IF ret THEN Deferred(k, t, closeOk) ELSE t
    ELSE IF k = "doubao"
    THEN IF ret THEN Deferred(k, Delivered(s), closeOk) ELSE Delivered(s)
    ELSE Deferred(k, Delivered(s), closeOk)

\* Reset of a provider; the sentence-batched Doubao's Reset does nothing
Reset(k, s, closeOk) ==
    IF Streaming(k)
    THEN closeConnection(k, [s EXCEPT !.running = FALSE, !.count = 0, !.silence = 0],
                         closeOk)
    ELSE s

\* initConnection has succeeded: the reader of a new session is started
StartSession(s) ==
    [s EXCEPT !.running = TRUE, !.conn = TRUE, !.sent = FALSE, !.completed = 0,
              !.pc = "reading"]

NotProv == <<memVars, agentVars, connVars, sessVars, lifeVars, mcpVars, stuckVars, streamVars, batchVars, raceVars>>

\* ToTTS or SendAudio with a non-empty chunk: a streaming provider that is not
\* running starts a session first.  The model starts a session only after
\* the reader of the one before has left.
ProvSend ==
    /\ Streaming(pKind)
    /\ prov.pc # "reading" \/ prov.running
    /\ prov.running \/ pHist.sessions < MaxSessions
    /\ prov' = [(IF prov.running THEN prov ELSE StartSession(prov))
                   EXCEPT !.count = Bump(@)]
    /\ pHist' = IF prov.running THEN [pHist EXCEPT !.op = "send"]
                ELSE [failed |-> FALSE, last |-> FALSE, sessions |-> pHist.sessions + 1,
                      events |-> pHist.events, op |-> "send"]
    /\ UNCHANGED pKind
    /\ UNCHANGED NotProv

\* ToTTS of the sentence-batched Doubao: a text without punctuation is
\* buffered; with the punctuation that ends a sentence the buffered text is
\* sent on a new connection and read at once
ProvSendBatched(sentence) ==
    /\ pKind = "doubao"
    /\ prov.pc # "reading"
    /\ sentence => pHist.sessions < MaxSessions
    /\ prov' = IF sentence
               THEN [prov EXCEPT !.text = Bump(@), !.sent = FALSE, !.completed = 0,
                                 !.pc = "reading"]
               ELSE [prov EXCEPT !.text = Bump(@)]
    /\ pHist' = IF sentence
                THEN [failed |-> FALSE, last |-> FALSE, sessions |-> pHist.sessions + 1,
                      events |-> pHist.events, op |-> "send"]
                ELSE [pHist EXCEPT !.op = "send"]
    /\ UNCHANGED pKind
    /\ UNCHANGED NotProv

\* the reader takes one turn of its loop.  A closed connection only fails
\* the read, the backend sends nothing after its final message, and only an
\* ASR backend reports silence.
ProvEvent(e, ret, closeOk) ==
    /\ prov.pc = "reading"
    /\ pHist.events < MaxEvents
    /\ Streaming(pKind) /\ ~prov.conn => e = "read_error"
    /\ pHist.last => e = "read_error"
    /\ e = "silent" => pKind \in AsrKinds
    /\ prov' = readMessage(pKind, e, ret, closeOk, prov)
    /\ pHist' = [pHist EXCEPT !.events = @ + 1,
                              !.failed = @ \/ (~LoopExits(pKind, prov) /\ e \in ErrorEvents),
                              !.last = @ \/ (~LoopExits(pKind, prov) /\ e = "last"),
                              !.op = "event"]
    /\ UNCHANGED pKind
    /\ UNCHANGED NotProv

\* Reset is called
ProvReset(closeOk) ==
    /\ pHist.op # "reset2"
    /\ prov' = Reset(pKind, prov, closeOk)
    /\ pHist' = [pHist EXCEPT !.op = IF pHist.op = "reset" THEN "reset2" ELSE "reset"]
    /\ UNCHANGED pKind
    /\ UNCHANGED NotProv

ProvInit ==
    /\ RaceIdle
    /\ BatchIdle
    /\ StreamIdle
    /\ ConnOpen
    /\ SessionIdle
    /\ LifeIdle
    /\ messages = <<>>
    /\ lastAdd = "new"
    /\ AgentIdle
    /\ nextStepPrompt = <<>>
    /\ toolChoice = "auto"
    /\ pKind \in TtsKinds \cup AsrKinds
    /\ prov = NewProvider
    /\ pHist = NoProvHist
    /\ McpIdle
    /\ StuckIdle

ProvNext ==
    \/ ProvSend
    \/ \E sentence \in BOOLEAN : ProvSendBatched(sentence)
    \/ \E e \in BackendEvents, ret, closeOk \in BOOLEAN : ProvEvent(e, ret, closeOk)
    \/ \E closeOk \in BOOLEAN : ProvReset(closeOk)

SpecProv == ProvInit /\ [][ProvNext]_vars

-----------------------------------------------------------------------------
(* tool.MCPClient, the registry of the tools of the connected MCP servers,   *)
(* and agent.MCPAgent, which connects the configured servers when it is      *)
(* created and is cleaned up at the end of every Run                         *)

NotMcp == <<memVars, agentVars, connVars, sessVars, lifeVars, provVars, stuckVars, streamVars, batchVars, raceVars>>

\* MCPClient.Disconnect(s): the client of the session is closed, and when
\* that fails the error is returned; the session is deleted and every name
\* in session2Tools[s] is deleted from Tools.  session2Tools[s] is kept.
Disconnect(m, s, closeOk) ==
    IF s \in m.sessions /\ ~closeOk
    THEN m
    ELSE [m EXCEPT !.sessions = @ \ {s},
                   !.Tools = [t \in McpToolNames |->
                                 IF t \in m.session2Tools[s] THEN NoServer ELSE @[t]]]

\* MCPClient.getTools(s) when the server lists the tools ts: each is put in
\* Tools under its name with the client of s and its name is appended to
\* session2Tools[s] (kept as the set of the names in the list)
getTools(m, s, ts) ==
    [m EXCEPT !.Tools = [t \in McpToolNames |-> IF t \in ts THEN s ELSE @[t]],
              !.session2Tools[s] = @ \cup ts]

\* MCPClient.ConnectStdio / ConnectSSE / ConnectStreamableHTTP: a server
\* that has a session is disconnected first; the new client is stored as
\* the session and initialized; when that succeeds its tools are fetched
Connect(m, s, ts, closeOk, initOk) ==
    IF s \in m.sessions /\ ~closeOk
    THEN m
    ELSE LET d == IF s \in m.sessions THEN Disconnect(m, s, TRUE) ELSE m
             c == [d EXCEPT !.sessions = @ \cup {s}]
         IN  IF initOk THEN getTools(c, s, ts) ELSE c

\* MCPAgent.Cleanup: Disconnect of every server of the configuration, the
\* servers in fails being those whose client fails to close
RECURSIVE DisconnectAll(_, _, _)
DisconnectAll(m, todo, fails) ==
    IF todo = {}
    THEN m
    ELSE LET s == CHOOSE x \in todo : TRUE
         IN  DisconnectAll(Disconnect(m, s, s \notin fails), todo \ {s}, fails)

\* a caller of the MCPClient connects server s
McpConnect(s, ts, closeOk, initOk) ==
    /\ mcpPc = "client"
    /\ mcp' = Connect(mcp, s, ts, closeOk, initOk)
    /\ UNCHANGED <<agentTools, mcpDisabled, mcpPc, mcpRuns>>
    /\ UNCHANGED NotMcp

\* a caller of the MCPClient disconnects server s
McpDisconnect(s, closeOk) ==
    /\ mcpPc = "client"
    /\ mcp' = Disconnect(mcp, s, closeOk)
    /\ UNCHANGED <<agentTools, mcpDisabled, mcpPc, mcpRuns>>
    /\ UNCHANGED NotMcp

McpInit ==
    /\ RaceIdle
    /\ BatchIdle
    /\ StreamIdle
    /\ ConnOpen
    /\ SessionIdle
    /\ LifeIdle
    /\ messages = <<>>
    /\ lastAdd = "new"
    /\ AgentIdle
    /\ nextStepPrompt = <<>>
    /\ toolChoice = "auto"
    /\ ProvIdle
    /\ McpIdle
    /\ StuckIdle

McpNext ==
    \E s \in Servers :
        \/ \E ts \in SUBSET McpToolNames, closeOk, initOk \in BOOLEAN :
              McpConnect(s, ts, closeOk, initOk)
        \/ \E closeOk \in BOOLEAN : McpDisconnect(s, closeOk)

SpecMcp == McpInit /\ [][McpNext]_vars

\* the servers MCPAgent.connectMCPServer connects
Enabled == Servers \ mcpDisabled

\* NewMCPAgent, connectMCPServer: the next server of the configuration that
\* is not disabled is connected; an error ends NewMCPAgent
AgentConnect(s, ts, initOk) ==
    /\ mcpPc = "new"
    /\ s \in Enabled \ mcp.sessions
    /\ mcp' = Connect(mcp, s, ts, TRUE, initOk)
    /\ mcpPc' = IF initOk THEN "new" ELSE "failed"
    /\ UNCHANGED <<agentTools, mcpDisabled, mcpRuns>>
    /\ UNCHANGED NotMcp

\* NewMCPAgent, initializeMCPClient after connectMCPServer: the tools of
\* the MCPClient are copied into the agent's tools
AgentLoad ==
    /\ mcpPc = "new"
    /\ Enabled \subseteq mcp.sessions
    /\ agentTools' = mcp.Tools
    /\ mcpPc' = "ready"
    /\ UNCHANGED <<mcp, mcpDisabled, mcpRuns>>
    /\ UNCHANGED NotMcp

\* ReActAgent.Run is entered
McpRunEnter ==
    /\ mcpPc = "ready"
    /\ mcpRuns < MaxRuns
    /\ mcpPc' = "running"
    /\ UNCHANGED <<mcp, agentTools, mcpDisabled, mcpRuns>>
    /\ UNCHANGED NotMcp

\* ReActAgent.think calls the LLM with the tools of MCPAgent.GetTools
McpAskTool ==
    /\ mcpPc = "running"
    /\ mcpPc' = "asked"
    /\ UNCHANGED <<mcp, agentTools, mcpDisabled, mcpRuns>>
    /\ UNCHANGED NotMcp

\* ReActAgent.Run returns: its deferred function calls MCPAgent.Cleanup
McpRunReturn(fails) ==
    /\ mcpPc \in {"running", "asked"}
    /\ mcp' = DisconnectAll(mcp, Servers, fails)
    /\ mcpRuns' = mcpRuns + 1
    /\ mcpPc' = "ready"
    /\ UNCHANGED <<agentTools, mcpDisabled>>
    /\ UNCHANGED NotMcp

McpAgentInit ==
    /\ RaceIdle
    /\ BatchIdle
    /\ StreamIdle
    /\ ConnOpen
    /\ SessionIdle
    /\ LifeIdle
    /\ messages = <<>>
    /\ lastAdd = "new"
    /\ AgentIdle
    /\ nextStepPrompt = <<>>
    /\ toolChoice = "auto"
    /\ pKind = "doubao_stream"
    /\ prov = NewProvider
    /\ pHist = NoProvHist
    /\ mcp = NewMCPClient
    /\ agentTools = [t \in McpToolNames |-> NoServer]
    /\ mcpDisabled \in SUBSET Servers
    /\ mcpPc = "new"
    /\ mcpRuns = 0
    /\ StuckIdle

McpAgentNext ==
    \/ \E s \in Servers, ts \in SUBSET McpToolNames, initOk \in BOOLEAN :
          AgentConnect(s, ts, initOk)
    \/ AgentLoad
    \/ McpRunEnter
    \/ McpAskTool
    \/ \E fails \in SUBSET Servers : McpRunReturn(fails)

SpecMcpAgent == McpAgentInit /\ [][McpAgentNext]_vars

-----------------------------------------------------------------------------
(* the stuck handling of ReActAgent.Run for an agent created with            *)
(* WithDuplicateThreshold(dupConfigured)                                     *)

\* the option WithDuplicateThreshold(n)
WithDuplicateThreshold(n) == IF n > 0 THEN n ELSE DuplicateThreshold

\* NewReActAgent with the option WithDuplicateThreshold(n): the options are
\* applied, then a threshold that is not positive is replaced
NewReActAgent(n) ==
    IF WithDuplicateThreshold(n) <= 0 THEN DuplicateThreshold ELSE WithDuplicateThreshold(n)

\* the messages a step leaves at the end of the memory
StepMessages ==
    {AssistantMessage(<<"a">>), AssistantMessage(<<"b">>), AssistantMessage(EmptyContent),
     UserMessage(<<"p">>)}

\* one turn of the loop of Run: the step adds a message, then
\* handleStuckState is called when isStuck says so
StuckStep(m) ==
    /\ Len(nextStepPrompt) < MaxPrompt
    /\ Len(messages) <= MaxMessages
    /\ messages' = AddMessage(messages, <<m>>, MaxMessages)
    /\ lastAdd' = AddKind(messages, messages')
    /\ nextStepPrompt' = IF isStuck(messages', duplicateThreshold)
                         THEN handleStuckState(nextStepPrompt)
                         ELSE nextStepPrompt
    /\ UNCHANGED <<state, currentStep, toolCalls, interrupt, toolChoice, lock, pc, recv,
                   actIdx, runErr, normalized, nCompleted, listenerTrue, roundToolCalls,
                   roundToolMsgs, toolRuns, exitKind>>
    /\ UNCHANGED <<connVars, sessVars, lifeVars, provVars, mcpVars, stuckVars, streamVars, batchVars, raceVars>>

StuckInit ==
    /\ RaceIdle
    /\ BatchIdle
    /\ StreamIdle
    /\ ProvIdle
    /\ McpIdle
    /\ ConnOpen
    /\ SessionIdle
    /\ LifeIdle
    /\ messages = <<>>
    /\ lastAdd = "new"
    /\ AgentIdle
    /\ nextStepPrompt = <<>>
    /\ toolChoice = "auto"
    /\ dupConfigured \in 0..MaxThreshold
    /\ duplicateThreshold = NewReActAgent(dupConfigured)

StuckNext == \E m \in StepMessages : StuckStep(m)

SpecStuck == StuckInit /\ [][StuckNext]_vars

\* C6: after every AddMessage the memory holds at most maxMessages messages
C6_LengthAtMostMax ==
    lastAdd \in {"add", "trim"} => Len(messages) <= MaxMessages

-----------------------------------------------------------------------------
(* Properties of the agent and its memory *)

\* a Run is inside the locked part of Run
Inside(p) == pc[p] \in {"loop", "llm", "act", "exit"}

\* the LLM is being called with the memory as it is
AtLLMCall == \E p \in Runs : pc[p] = "llm"

\* a Run has returned and no later Run has entered
RunReturned == lock = 0 /\ exitKind # "none"

\* the assistant message at i has, for each of its tool_calls, a tool message
\* after it with no user or assistant message in between
Answered(msgs, i) ==
    \A k \in 1..Len(msgs[i].toolCalls) :
        \E j \in (i + 1)..Len(msgs) :
            /\ msgs[j].role = "tool"
            /\ msgs[j].toolCallID = msgs[i].toolCalls[k].id
            /\ \A m \in (i + 1)..j : msgs[m].role \notin {"user", "assistant"}

\* C1: at every LLM call, every assistant message with tool_calls is followed,
\* before the next user or assistant message, by a tool message for each of
\* its tool_call ids
C1_ToolCallsAnsweredAtLLMCall ==
    AtLLMCall =>
        \A i \in 1..Len(messages) :
            messages[i].role = "assistant" => Answered(messages, i)

\* an LLM call whose memory holds a tool message FormatMessages synthesized
C1_Witness ==
    /\ AtLLMCall
    /\ \E i \in 1..Len(messages) :
          messages[i].role = "tool" /\ messages[i].content = InterruptedContent

\* C2: when a Run has returned, the tool messages act appended in that Run are
\* as many as the tool_calls of the assistant messages appended in that Run
C2_ToolMessagesMatchToolCalls ==
    RunReturned => roundToolMsgs = roundToolCalls

\* C4: a Run that took a non-empty prompt delivers Completed exactly once, at
\* its exit, unless the listener returned true for a delta in that Run, and
\* then it delivers none
C4_CompletedOnceAtExit ==
    /\ (\E p \in Runs : Inside(p)) => nCompleted = 0
    /\ RunReturned => nCompleted = (IF listenerTrue THEN 0 ELSE 1)

\* a Run that reached max_steps has returned and delivered Completed
C4_Witness ==
    RunReturned /\ exitKind = "max_steps" /\ ~listenerTrue /\ nCompleted = 1

\* C7: the memory FormatMessages leaves, and the memory of every LLM call,
\* does not start with a tool message
C7_FirstMessageNeverTool ==
    /\ normalized # <<>> => normalized[1].role # "tool"
    /\ (AtLLMCall /\ messages # <<>>) => messages[1].role # "tool"

\* an LLM call after the overflow loop of AddMessage cut the memory in this Run
C7_Witness ==
    /\ AtLLMCall
    /\ Len(messages) < Len(normalized)
    /\ \E i \in 1..Len(messages) : messages[i].role = "tool"

\* C8: two Runs are never inside the locked part at once, and the state is
\* IDLE whenever no Run holds the lock
C8_RunsNeverOverlap ==
    /\ Cardinality({p \in Runs : Inside(p)}) <= 1
    /\ lock = 0 => state = "IDLE"

\* a second Run waits for the lock while the first executes a tool
C8_Witness ==
    \E p, q \in Runs : pc[p] = "act" /\ pc[q] = "lock"

\* C9: once the interrupt flag is set no further tool is executed
C9_NoToolAfterInterrupt ==
    [][interrupt = 1 => toolRuns' = toolRuns]_vars

\* C11: a call of OnTtsResult made while the interrupt flag is set writes no
\* tts frame, does not reset the TTS provider and returns false, whether the
\* state is Processing or Completed
C11_TtsResultDroppedWhileInterrupted ==
    (ttsResult.called /\ ttsResult.intr = 1)
        => (~ttsResult.write /\ ~ttsResult.reset /\ ~ttsResult.ret)

\* OnTtsResult was called with Completed while the interrupt flag was set
C11_Witness ==
    ttsResult.called /\ ttsResult.intr = 1 /\ ttsResult.completed

\* the system messages of a memory, in order
SystemOf(msgs) == SelectSeq(msgs, LAMBDA m : m.role = "system")

\* the other messages of a memory, in order
NonSystemOf(msgs) == SelectSeq(msgs, LAMBDA m : m.role # "system")

IsSuffix(a, b) == Len(a) <= Len(b) /\ a = SubSeq(b, Len(b) - Len(a) + 1, Len(b))

StartsWithUser(msgs) == msgs = <<>> \/ msgs[1].role = "user"

LastIsAssistant(msgs) == Len(msgs) > 0 /\ msgs[Len(msgs)].role = "assistant"

LastRemoved(before, after) ==
    Len(before) > 0 /\ after = SubSeq(before, 1, Len(before) - 1)

\* C13 as stated: FormatMessages removes the last message exactly when it is
\* an assistant message with empty content and at least one tool_call, and
\* leaves the memory unchanged for every other last assistant message
C13_RemovesOnlyEmptyWithToolCalls ==
    [][lastAdd' \in {"format", "fill", "drop"} =>
        LET last == messages[Len(messages)]
            cond == /\ LastIsAssistant(messages)
                    /\ last.content = EmptyContent
                    /\ Len(last.toolCalls) > 0
        IN /\ LastRemoved(messages, messages') <=> cond
           /\ (LastIsAssistant(messages) /\ ~cond) => messages' = messages]_vars

\* C13 amended: FormatMessages removes the last message exactly when it is an
\* assistant message with empty content or with at least one tool_call, and
\* leaves the memory unchanged for every other last assistant message
C13_RemovesEmptyOrWithToolCalls ==
    [][lastAdd' \in {"format", "fill", "drop"} =>
        LET last == messages[Len(messages)]
            cond == /\ LastIsAssistant(messages)
                    /\ (last.content = EmptyContent \/ Len(last.toolCalls) > 0)
        IN /\ LastRemoved(messages, messages') <=> cond
           /\ (LastIsAssistant(messages) /\ ~cond) => messages' = messages]_vars

\* FormatMessages removed the last message of a memory
C13_Witness ==
    lastAdd = "drop" /\ messages # <<>>

\* callers that are writing on the underlying socket
OnSocket == {t \in Callers : connPc[t] \in {"write_io", "close_io"}}

\* C14: a WriteMessage called after Close has been called returns the closed
\* error without going to the socket, no data write reaches the socket after
\* the underlying close, and two callers never write on the socket at once
C14_NoWriteAfterClose ==
    /\ [](Cardinality(OnSocket) <= 1)
    /\ [](closeCalls > 0 => isClosed = 1)
    /\ [][/\ sockWrites' # sockWrites => nSockClose = 0
          /\ closeCalls > 0 =>
                \A t \in Callers :
                    /\ (connPc[t] = "idle" => connPc'[t] # "write_lock")
                    /\ (connPc[t] = "idle" /\ writeRet'[t] # writeRet[t])
                           => writeRet'[t] = "closed"]_vars

\* a WriteMessage called after the underlying close returned the closed error
\* while an earlier one had reached the socket
C14_Witness ==
    /\ nSockClose = 1
    /\ sockWrites > 0
    /\ \E t \in Callers : writeRet[t] = "closed"
    /\ \E t \in Callers : writeRet[t] = "nil"

IsPrefix(a, b) == Len(a) <= Len(b) /\ a = SubSeq(b, 1, Len(a))

\* C15: however many goroutines call Handler.close, its body runs once, the
\* stop channel is closed at most once, and the body closes the connection,
\* then closes the stop channel, then resets the ASR provider, the agent and
\* the TTS provider, in that order; no call returns before the body is done
C15_CloseBodyOnceInOrder ==
    /\ nStopClose <= 1
    /\ IsPrefix(closeLog, CloseOrder)
    /\ \A c \in Closers : closerPc[c] = "done" => closeLog = CloseOrder
    /\ onceState = "done" => closeLog = CloseOrder /\ isClosed = 1

C15_Witness ==
    /\ closeLog = CloseOrder
    /\ closerPc["run"] = "done"
    /\ closerPc["pump"] = "done"

PumpsExited ==
    /\ textPumpPc = "exited"
    /\ audioPumpPc \in {"none", "exited"}

\* C16: once Handler.close has run, the conn reader, the text pump and the
\* audio pump each exit sooner or later, whatever the two queues hold
C16_AllExitAfterClose ==
    (onceState = "done") ~> (readerPc = "exited" /\ PumpsExited)

\* C17: after a failed read of the conn reader the body of Handler.close is
\* run: the stop channel is closed and the three providers are reset
C17_ReadFailureCloses ==
    readFailed ~> (closeLog = CloseOrder)

\* the inputs that break the client protocol
ProtocolErrors == {"malformed", "unknown", "other"}

\* C18: while the connection is up, every text frame that is no JSON, every
\* frame of an unsupported kind and every JSON text frame of an unknown type
\* that was handled has been answered by an error frame with code 10400
C18_ErrorFrameForProtocolErrors ==
    isClosed = 0 => \A k \in ProtocolErrors : errFrames[k] = received[k]

\* C19: in a session whose hello message had enable_tts = false the ToTTS
\* of the TTS provider is never called and no tts frame is written
C19_NoTtsWhenDisabled ==
    ~enableTts =>
        /\ ~ttsInvoked
        /\ \A i \in 1..Len(frames) : frames[i].kind # "tts"

\* chat round r has run to completion with TTS enabled and without an abort:
\* it is the latest round and the interrupt flag is clear
RoundOver(r) ==
    /\ pc[r] = "done"
    /\ chatRound = r
    /\ hInterrupt = 0
    /\ enableTts
    /\ ttsConfigured

\* C20: after a chat round with TTS enabled has run to completion without
\* an abort, the tts frame with state Completed of that round is written
\* sooner or later, unless an abort or a new chat message arrives or the
\* session is closed first (or the behaviour has written all the frames it
\* may write)
C20_CompletedFrameAfterRound ==
    \A r \in Runs :
        RoundOver(r) ~> \/ \E i \in 1..Len(frames) : frames[i] = CompletedFrame(r)
                        \/ hInterrupt = 1
                        \/ chatRound # r
                        \/ sessClosed
                        \/ Len(frames) = MaxFrames

\* C21: the reader of a synthesis session calls OnTtsResult(_, Completed) at
\* most once, and exactly once by the time it has left
C21_TtsCompletedExactlyOnce ==
    pKind \in TtsKinds =>
        /\ prov.completed <= 1
        /\ prov.pc = "exited" => prov.completed = 1

\* C22: when the reader of a recognition session has left after a failed
\* read or an error of the backend, the provider is not running and
\* OnAsrResult(_, Completed) was called exactly once for the session
C22_AsrCompletedOnceOnError ==
    (pKind \in AsrKinds /\ prov.pc = "exited" /\ pHist.failed) =>
        /\ ~prov.running
        /\ prov.completed = 1

\* the reply of the chat round that set closeAfterChat is streaming
ReplyStreaming == closeRound # 0 /\ pc[closeRound] \in {"lock", "llm"}

\* C23: the silence path of OnAsrResult sends no asr frame, sets
\* closeAfterChat and stopRecv and starts one chat round; while the reply of
\* that round is streaming handleAbortChat is not called; and the session
\* is closed only when Run of that round has returned
C23_SilenceShutdown ==
    [][/\ (closeCause # "silence" /\ closeCause' = "silence") =>
             /\ closeAfterChat' /\ stopRecv' = 1
             /\ frames' = frames
             /\ chatRound' = chatRound + 1
       /\ (closeCause = "silence" /\ ReplyStreaming) => ~(hInterrupt = 0 /\ hInterrupt' = 1)
       /\ (closeCause = "silence" /\ ~sessClosed /\ sessClosed') =>
             pc[closeRound] = "returned"]_vars

\* C24: after a chat message that is an exit phrase closeAfterChat and
\* stopRecv are set, and the session is closed only when Run of that round
\* has returned and, with TTS enabled, the tts frame with state Completed of
\* that round has been written
C24_CloseAfterExitReply ==
    /\ closeCause = "exit" => closeAfterChat /\ stopRecv = 1
    /\ (closeCause = "exit" /\ sessClosed) =>
          /\ pc[closeRound] \in {"returned", "done"}
          /\ (enableTts /\ ttsConfigured) =>
                \E i \in 1..Len(frames) : frames[i] = CompletedFrame(closeRound)

\* server s is disconnected by this step: it had a session and has none now
Disconnected(s) == s \in mcp.sessions /\ s \notin mcp'.sessions

\* C25: a Disconnect of server s that succeeds removes the session of s and
\* the tools whose registry entry belongs to s, and leaves registered every
\* tool whose registry entry belongs to another server that is connected
C25_DisconnectRemovesOnlyOwnTools ==
    [][\A s \in Servers :
          Disconnected(s) =>
              \A t \in McpToolNames :
                  /\ mcp.Tools[t] = s => mcp'.Tools[t] = NoServer
                  /\ (mcp.Tools[t] \in mcp.sessions \ {s}) => mcp'.Tools[t] = mcp.Tools[t]]_vars

\* every MCP tool the agent offers is backed by the client of a session
ToolsBacked == \A t \in McpToolNames : agentTools[t] # NoServer => agentTools[t] \in mcp.sessions

\* C26: the return of a Run disconnects no MCP server, and the MCP tools
\* offered to the LLM in a Run are backed by an open connection
C26_McpConnectionsOutliveRuns ==
    [][/\ (mcpPc \in {"running", "asked"} /\ mcpPc' = "ready") => mcp'.sessions = mcp.sessions
       /\ mcpPc' = "asked" => ToolsBacked']_vars

\* this step is an iteration of act that executed a special tool with success
SpecialToolDone ==
    /\ \E p \in Runs : pc[p] = "act"
    /\ toolRuns' = toolRuns + 1
    /\ toolCalls[actIdx].name \in SpecialToolNames
    /\ messages'[Len(messages')].content = Observe(ToolResult(toolCalls[actIdx].name))

\* C27: when act executes a terminate tool_call with success the state
\* becomes FINISHED, and while a Run is in state FINISHED no tool_call is
\* executed and no step, so no LLM call, is started
C27_TerminateFinishesRun ==
    [][/\ SpecialToolDone => state' = "FINISHED"
       /\ (lock # 0 /\ state = "FINISHED") =>
             /\ toolRuns' = toolRuns
             /\ currentStep' = currentStep
             /\ \A p \in Runs : pc'[p] = "llm" => pc[p] = "llm"]_vars

\* terminate was the first of two tool_calls of a step and the only one
\* that was executed
C27_Witness ==
    /\ lock # 0
    /\ state = "FINISHED"
    /\ Len(toolCalls) = 2
    /\ toolCalls[1].name = "terminate"
    /\ toolRuns = 1
    /\ messages[Len(messages)].role = "tool"
    /\ messages[Len(messages)].name = "terminate"

\* this step is a call of Reset
ResetStep == pHist'.op # pHist.op /\ pHist'.op \in {"reset", "reset2"}

\* C28: a Reset of a provider leaves it not running, without a connection,
\* with its counters and its buffered text cleared, and a Reset that follows
\* a Reset changes nothing
C28_ResetIdempotent ==
    [][ResetStep =>
          /\ ~prov'.running /\ ~prov'.conn
          /\ prov'.count = 0 /\ prov'.silence = 0 /\ prov'.text = 0
          /\ pHist'.op = "reset2" => prov' = prov]_vars

\* C29: in an agent configured with duplicate_threshold 0 next_step_prompt
\* is never modified by the stuck handling, whatever the memory holds
C29_ThresholdZeroDisablesStuck ==
    dupConfigured = 0 => nextStepPrompt = <<>>

\* the goroutines started by handleChatMessage that have not returned
RunDrivers == {r \in Runs : pc[r] \in {"lock", "llm", "returned"}}

\* the delta reader a step starts lives while the step calls the LLM
DeltaReaders == {r \in Runs : pc[r] = "llm"}

\* the readers of the TTS provider that have not left: the one of the
\* running synthesis session and those that a Reset has told to leave
TtsReaders == ttsExiting \cup (IF ttsRunning THEN {ttsOwner} ELSE {})

\* the threads of a session: the conn reader and the text pump while the
\* session is open, with the audio pump when the session uses ASR, the ASR
\* reader, the Run drivers with their delta reader and the TTS readers
LiveThreads ==
    (IF sessClosed THEN 0 ELSE IF asrPc = "off" THEN 2 ELSE 3)
    + (IF asrPc \in {"reading", "defer"} THEN 1 ELSE 0)
    + Cardinality(RunDrivers) + Cardinality(DeltaReaders) + Cardinality(TtsReaders)

\* C30: a session has at most 7 live threads in every reachable state
C30_AtMostSevenThreads == LiveThreads <= 7

\* the step of Run p leaves the call of the LLM in this step of the model
StepDecides(p) == pc[p] = "llm" /\ pc'[p] # "llm"

\* the step stops: no tool is run, and Run gets an error or the state is FINISHED
StepStops(p) == toolRuns' = toolRuns /\ (pc'[p] = "exit" \/ state' = "FINISHED")

\* C31: after think the step stops under tool_choice none; under auto it
\* acts when the response has tool_calls or content and else stops with the
\* state FINISHED; under required it acts, with an error when the response
\* has no tool_calls
C31_StepDecidesByToolChoice ==
    [][\A p \in Runs :
          StepDecides(p) =>
              /\ toolChoice = "none" => StepStops(p)
              /\ (toolChoice = "auto" /\ pc'[p] # "exit") =>
                    (state' = "FINISHED" <=>
                        /\ toolCalls' = <<>>
                        /\ messages'[Len(messages')].content = EmptyContent)
              /\ toolChoice = "required" =>
                    (pc'[p] = "exit" \/ (pc'[p] = "act" /\ Len(toolCalls') > 0))]_vars

\* how far Run p is from its return: the steps it may still start, and
\* within a step the LLM call with its delta reader, then the tool calls
\* that are left, then the head of the loop
StepRank(p) ==
    IF pc[p] = "llm" THEN MaxToolCalls + 3 + (IF recv = "running" THEN 1 ELSE 0)
    ELSE IF pc[p] = "act" THEN 2 + Len(toolCalls) - actIdx
    ELSE 1

RunMeasure(p) ==
    IF pc[p] = "done" THEN 0
    ELSE (MaxSteps - currentStep) * (MaxToolCalls + 5) + StepRank(p)

\* this step of the model is a step of Run p, which holds the lock
RunStep(p) == lock = p /\ \A q \in Runs \ {p} : pc'[q] = pc[q]

-----------------------------------------------------------------------------
(* The reply channel of the OpenAI client between OpenAI.Handle, which       *)
(* pushes the deltas of a stream, and ReActAgent.recvLLMMessages, which      *)
(* passes them to the listener                                               *)

\* make(chan string, 10) in NewOpenAI
ReplyCap == 10

\* calls of OpenAI.Handle in one behaviour
MaxStreams == 2

\* non-empty deltas of one stream
MaxStreamDeltas == 11

\* the i-th delta of stream s as an element of the channel
Delta(s, i) == [s |-> s, i |-> i]

\* finalFlag, pushed by the Handle call of stream s
FinalFlag(s) == [s |-> s, i |-> 0]

NotStream == <<memVars, agentVars, connVars, sessVars, lifeVars, provVars, mcpVars, stuckVars, batchVars, raceVars>>

\* ReActAgent.Run up to the loop: the lock is taken
StreamRunEnter ==
    /\ sPc = "idle"
    /\ sNum < MaxStreams
    /\ sPc' = "loop"
    /\ UNCHANGED <<replyCh, sNum, sTotal, sPushed, hPc, rPc, sIntr, sDelivered>>
    /\ UNCHANGED NotStream

\* the loop of Run starts a step: step starts recvLLMMessages and think calls
\* OpenAI.Handle, which rejects the request before streaming (invalid
\* tool_choice, formatMessages fails) or starts a stream of n non-empty deltas
StreamStep(n, reject) ==
    /\ sPc = "loop"
    /\ sIntr = 0
    /\ sNum < MaxStreams
    /\ sNum' = sNum + 1
    /\ sTotal' = IF reject THEN 0 ELSE n
    /\ sPushed' = 0
    /\ hPc' = IF reject THEN "rejected" ELSE "streaming"
    /\ rPc' = "reading"
    /\ sPc' = IF reject THEN "wait" ELSE "think"
    /\ UNCHANGED <<replyCh, sIntr, sDelivered>>
    /\ UNCHANGED NotStream

\* OpenAI.Handle sends on the channel, which blocks while the channel is
\* full: the next delta, or finalFlag after the last one; then Handle and
\* think return and step waits for the reader
HandlePush ==
    /\ hPc = "streaming"
    /\ Len(replyCh) < ReplyCap
    /\ IF sPushed < sTotal
       THEN /\ replyCh' = Append(replyCh, Delta(sNum, sPushed + 1))
            /\ sPushed' = sPushed + 1
            /\ UNCHANGED <<hPc, sPc>>
       ELSE /\ replyCh' = Append(replyCh, FinalFlag(sNum))
            /\ hPc' = "returned"
            /\ sPc' = "wait"
            /\ UNCHANGED sPushed
    /\ UNCHANGED <<sNum, sTotal, rPc, sIntr, sDelivered>>
    /\ UNCHANGED NotStream

\* OpenAI.Recv: the value taken from the channel is an end of the stream
Recv(item) == item.i = 0

\* one turn of recvLLMMessages: Recv takes the head of the channel; at
\* finalFlag the reader exits, a delta goes to the listener, and when the
\* listener returns true (ret) interrupt is set and the reader exits
ReaderRecv(ret) ==
    /\ rPc = "reading"
    /\ replyCh # <<>>
    /\ replyCh' = Tail(replyCh)
    /\ IF Recv(Head(replyCh))
       THEN /\ rPc' = "exited"
            /\ UNCHANGED <<sIntr, sDelivered>>
       ELSE /\ sDelivered' = Append(sDelivered,
                                    [s |-> Head(replyCh).s, i |-> Head(replyCh).i,
                                     at |-> sNum, ret |-> ret])
            /\ sIntr' = IF ret THEN 1 ELSE sIntr
            /\ rPc' = IF ret THEN "exited" ELSE "reading"
    /\ UNCHANGED <<sNum, sTotal, sPushed, hPc, sPc>>
    /\ UNCHANGED NotStream

\* what step does after wg.Wait, and what the loop of Run then finds
StepOutcomes == {"error", "no_act", "act", "act_last"}

\* wg.Wait returns when the reader has exited: step returns the error of
\* think, or sets FINISHED without acting, or calls act; after act the loop
\* goes on ("loop") or has ended ("acted")
StepEnd(o) ==
    /\ sPc = "wait"
    /\ rPc = "exited"
    /\ hPc = "rejected" => o = "error"
    /\ o = "act" => (sNum < MaxStreams \/ sIntr = 1)
    /\ sPc' = CASE o = "act" -> "loop"
                [] o = "act_last" -> "acted"
                [] OTHER -> "exit"
    /\ UNCHANGED <<replyCh, sNum, sTotal, sPushed, hPc, rPc, sIntr, sDelivered>>
    /\ UNCHANGED NotStream

\* Run returns: the loop has ended or finds interrupt set; the deferred
\* function clears interrupt and the lock is released
StreamRunReturn ==
    /\ \/ sPc \in {"exit", "acted"}
       \/ sPc = "loop" /\ sIntr = 1
    /\ sPc' = "idle"
    /\ sIntr' = 0
    /\ hPc' = "none"
    /\ rPc' = "none"
    /\ sTotal' = 0
    /\ sPushed' = 0
    /\ UNCHANGED <<replyCh, sNum, sDelivered>>
    /\ UNCHANGED NotStream

StreamInit ==
    /\ RaceIdle
    /\ BatchIdle
    /\ ProvIdle
    /\ McpIdle
    /\ StuckIdle
    /\ StreamIdle
    /\ ConnOpen
    /\ SessionIdle
    /\ LifeIdle
    /\ messages = <<>>
    /\ lastAdd = "new"
    /\ AgentIdle
    /\ nextStepPrompt = <<>>
    /\ toolChoice = "auto"

StreamNext ==
    \/ StreamRunEnter
    \/ \E n \in 0..MaxStreamDeltas, reject \in BOOLEAN : StreamStep(n, reject)
    \/ HandlePush
    \/ \E ret \in BOOLEAN : ReaderRecv(ret)
    \/ \E o \in StepOutcomes : StepEnd(o)
    \/ StreamRunReturn

SpecStream == StreamInit /\ [][StreamNext]_vars

-----------------------------------------------------------------------------
(* Properties of the reply channel *)

\* the listener has returned true for a delta of a stream and was given
\* another delta of that stream afterwards
DeliveredAfterTrue ==
    \E j, k \in DOMAIN sDelivered :
        /\ j < k
        /\ sDelivered[j].ret
        /\ sDelivered[k].s = sDelivered[j].s

\* OpenAI.Handle is in a send on the full channel and the reader of the step
\* has exited: nothing takes from the channel before think returns
HandleBlocked ==
    /\ hPc = "streaming"
    /\ Len(replyCh) = ReplyCap
    /\ rPc = "exited"

\* the listener has just returned true for a delta
ListenerTrue ==
    /\ Len(sDelivered') = Len(sDelivered) + 1
    /\ sDelivered'[Len(sDelivered')].ret

\* C33: when the listener returns true for a delta, interrupt is set, no
\* further delta of that stream is ever given to the listener, think is not
\* left blocked on the channel whatever the stream still produces, and the
\* Run starts no further step
C33_ListenerTrueStopsStream ==
    [][/\ ListenerTrue => sIntr' = 1
       /\ ~DeliveredAfterTrue'
       /\ ~(sIntr' = 1 /\ HandleBlocked')
       /\ sIntr = 1 => sNum' = sNum]_vars

\* OpenAI.Handle has rejected the request before streaming, the reader of
\* the step waits on the empty channel and step waits for the reader
ReaderStranded ==
    /\ hPc = "rejected"
    /\ sPc = "wait"
    /\ rPc = "reading"
    /\ replyCh = <<>>

\* C34: when the LLM client rejects a request before streaming, the reader
\* of the step exits and Run returns the error: step is never left waiting
\* for a reader that waits on the empty channel
C34_RejectedRequestReturns == ~ReaderStranded

\* what the listener was given during the current step
StepDeliveries == SelectSeq(sDelivered, LAMBDA d : d.at = sNum)

\* the listener was given the deltas of the stream of the current step, each
\* once and in the order of the stream, and nothing else
StepForwarded ==
    /\ Len(StepDeliveries) = sTotal
    /\ \A j \in 1..Len(StepDeliveries) :
          StepDeliveries[j].s = sNum /\ StepDeliveries[j].i = j

\* step goes on after wg.Wait in a Run in which the listener has not
\* returned true
StepGoesOn ==
    /\ sPc = "wait"
    /\ sPc' # "wait"
    /\ hPc = "returned"
    /\ sIntr = 0

\* C35: in a round without abort, when a step goes on to its tool calls the
\* listener has been given exactly the deltas of the stream of that step,
\* each once and in the order in which the stream produced them
C35_DeltasForwardedBeforeAct ==
    [][StepGoesOn => StepForwarded]_vars

-----------------------------------------------------------------------------
(* The Doubao TTS provider that collects text into sentences: ToTTS cuts the *)
(* text at punctuation marks and passes each sentence to sendMessage         *)

\* characters of one call of ToTTS
MaxText == 2

\* characters passed to ToTTS in one behaviour
MaxBatchInput == 4

\* calls of sendMessage in one behaviour
MaxBatchSent == 4

\* the characters of the texts: two letters and a punctuation mark
Chars == {"a", "b", "."}

\* the marks of splitPunctuation among the characters
splitPunctuation == {"."}

\* the texts given to ToTTS
Texts == UNION {[1..n -> Chars] : n \in 0..MaxText}

\* the loop of ToTTS over the characters of text: buf is d.text, builder the
\* strings.Builder, sent what sendMessage was called with
RECURSIVE SplitText(_, _, _, _)
SplitText(text, buf, builder, sent) ==
    IF text = <<>>
    THEN [text |-> buf \o builder, sent |-> sent]
    ELSE IF Head(text) \in splitPunctuation
    THEN SplitText(Tail(text), <<>>, <<>>, Append(sent, buf \o Append(builder, Head(text))))
    ELSE SplitText(Tail(text), buf, Append(builder, Head(text)), sent)

NotBatch == <<memVars, agentVars, connVars, sessVars, lifeVars, provVars, mcpVars, stuckVars, streamVars, raceVars>>

\* Doubao.ToTTS(text)
DoubaoToTTS(text) ==
    /\ Len(bInput) + Len(text) <= MaxBatchInput
    /\ Len(bSent) < MaxBatchSent
    /\ bOp' = "tts"
    /\ bInput' = bInput \o text
    /\ bText' = IF text = <<>> THEN bText ELSE SplitText(text, bText, <<>>, bSent).text
    /\ bSent' = IF text = <<>> THEN bSent ELSE SplitText(text, bText, <<>>, bSent).sent
    /\ UNCHANGED NotBatch

\* Doubao.ToSessionFinish: the text that is left goes to sendMessage
DoubaoToSessionFinish ==
    /\ Len(bSent) < MaxBatchSent
    /\ bOp' = "finish"
    /\ bSent' = IF bText # <<>> THEN Append(bSent, bText) ELSE bSent
    /\ UNCHANGED <<bText, bInput>>
    /\ UNCHANGED NotBatch

\* Doubao.Reset returns nil
DoubaoReset ==
    /\ bOp # "reset"
    /\ bOp' = "reset"
    /\ UNCHANGED <<bText, bSent, bInput>>
    /\ UNCHANGED NotBatch

BatchInit ==
    /\ RaceIdle
    /\ ProvIdle
    /\ McpIdle
    /\ StuckIdle
    /\ StreamIdle
    /\ BatchIdle
    /\ ConnOpen
    /\ SessionIdle
    /\ LifeIdle
    /\ messages = <<>>
    /\ lastAdd = "new"
    /\ AgentIdle
    /\ nextStepPrompt = <<>>
    /\ toolChoice = "auto"

BatchNext ==
    \/ \E text \in Texts : DoubaoToTTS(text)
    \/ DoubaoToSessionFinish
    \/ DoubaoReset

SpecBatch == BatchInit /\ [][BatchNext]_vars

\* the texts of a sequence of requests, one after the other
RECURSIVE Flat(_)
Flat(reqs) == IF reqs = <<>> THEN <<>> ELSE Head(reqs) \o Flat(Tail(reqs))

\* the characters passed to ToTTS are those submitted followed by those in
\* the buffer: none is lost, submitted twice or out of order
SubmittedOnce == Flat(bSent) \o bText = bInput

\* a request that ends with its only punctuation mark
Sentence(req) ==
    /\ req # <<>>
    /\ req[Len(req)] \in splitPunctuation
    /\ \A j \in 1..(Len(req) - 1) : req[j] \notin splitPunctuation

\* C36: every character passed to ToTTS is submitted once and in order,
\* every request that ToTTS submits is the buffered text up to and with a
\* punctuation mark, and ToSessionFinish submits the rest of the buffer and
\* leaves the buffer empty
C36_SentenceBatching ==
    [][/\ SubmittedOnce'
       /\ bOp' = "tts" =>
             \A k \in (Len(bSent) + 1)..Len(bSent') : Sentence(bSent'[k])
       /\ bOp' = "finish" =>
             /\ bText' = <<>>
             /\ bText # <<>> => bSent' = Append(bSent, bText)]_vars

-----------------------------------------------------------------------------
(* The Doubao ASR provider under interleaving: SendAudio, the reader         *)
(* readMessage and Reset, with the places where conn and isRunning are used  *)
(* inside and outside the mutex                                              *)

NotRace == <<memVars, agentVars, connVars, sessVars, lifeVars, provVars, mcpVars, stuckVars, streamVars, batchVars>>

\* SendAudio reads isRunning under the mutex; when the provider is not
\* running it goes on to initConnection
AsrSendAudio ==
    /\ dSendPc = "idle"
    /\ dSendPc' = IF dIsRunning THEN "test" ELSE "init"
    /\ UNCHANGED <<dConn, dIsRunning, dReadPc, dUnlocked, dNilUse>>
    /\ UNCHANGED NotRace

\* initConnection, under the mutex: nothing when the provider runs; else an
\* old connection is closed and, when the dial and the first exchange
\* succeed (ok), conn and isRunning are set and readMessage is started.
\* One reader is followed: a new one starts when the last one has exited.
AsrInitConnection(ok) ==
    /\ dSendPc = "init"
    /\ dIsRunning \/ dReadPc \in {"none", "exited"}
    /\ IF dIsRunning
       THEN /\ dSendPc' = "test"
            /\ UNCHANGED <<dConn, dIsRunning, dReadPc>>
       ELSE IF ok
       THEN /\ dConn' = "open"
            /\ dIsRunning' = TRUE
            /\ dReadPc' = "check"
            /\ dSendPc' = "test"
       ELSE /\ dConn' = "nil"
            /\ dSendPc' = "idle"
            /\ UNCHANGED <<dIsRunning, dReadPc>>
    /\ UNCHANGED <<dUnlocked, dNilUse>>
    /\ UNCHANGED NotRace

\* SendAudio tests len(data) > 0 && d.isRunning: isRunning is read without
\* the mutex
AsrSendTest(hasData) ==
    /\ dSendPc = "test"
    /\ dUnlocked' = dUnlocked \cup {"SendAudio.isRunning"}
    /\ dSendPc' = IF hasData /\ dIsRunning THEN "nilcheck" ELSE "idle"
    /\ UNCHANGED <<dConn, dIsRunning, dReadPc, dNilUse>>
    /\ UNCHANGED NotRace

\* sendAudioData tests d.conn == nil without the mutex
AsrSendNilCheck ==
    /\ dSendPc = "nilcheck"
    /\ dUnlocked' = dUnlocked \cup {"sendAudioData.conn"}
    /\ dSendPc' = IF dConn = "nil" THEN "idle" ELSE "write"
    /\ UNCHANGED <<dConn, dIsRunning, dReadPc, dNilUse>>
    /\ UNCHANGED NotRace

\* sendAudioData calls d.conn.WriteMessage without the mutex; on a nil conn
\* the call panics and the deferred recover of sendAudioData ends the call
AsrSendWrite ==
    /\ dSendPc = "write"
    /\ dUnlocked' = dUnlocked \cup {"sendAudioData.WriteMessage"}
    /\ dNilUse' = IF dConn = "nil" THEN dNilUse \cup {"WriteMessage"} ELSE dNilUse
    /\ dSendPc' = "idle"
    /\ UNCHANGED <<dConn, dIsRunning, dReadPc>>
    /\ UNCHANGED NotRace

\* the deferred function of readMessage, under the mutex
AsrReaderDeferred ==
    /\ dIsRunning' = FALSE
    /\ dConn' = "nil"
    /\ dReadPc' = "exited"

\* the head of the loop of readMessage, under the mutex
AsrReadCheck ==
    /\ dReadPc = "check"
    /\ IF ~dIsRunning \/ dConn = "nil"
       THEN AsrReaderDeferred
       ELSE dReadPc' = "read" /\ UNCHANGED <<dConn, dIsRunning>>
    /\ UNCHANGED <<dSendPc, dUnlocked, dNilUse>>
    /\ UNCHANGED NotRace

\* what a read of the reader brings: a message after which the loop goes
\* on, an error, or a message for which the listener returns true
ReadOutcomes == {"message", "error", "finished"}

\* readMessage calls d.conn.ReadMessage without the mutex; on a nil conn the
\* call panics and the deferred function recovers; an error goes through
\* setErrorAndClose
AsrReadConn(o) ==
    /\ dReadPc = "read"
    /\ dUnlocked' = dUnlocked \cup {"readMessage.ReadMessage"}
    /\ dNilUse' = IF dConn = "nil" THEN dNilUse \cup {"ReadMessage"} ELSE dNilUse
    /\ IF dConn # "nil" /\ o = "message"
       THEN dReadPc' = "check" /\ UNCHANGED <<dConn, dIsRunning>>
       ELSE AsrReaderDeferred
    /\ UNCHANGED dSendPc
    /\ UNCHANGED NotRace

\* Doubao.Reset, under the mutex: isRunning is cleared and closeConnection
\* closes the connection and sets conn to nil
AsrReset ==
    /\ dIsRunning \/ dConn # "nil"
    /\ dIsRunning' = FALSE
    /\ dConn' = "nil"
    /\ UNCHANGED <<dSendPc, dReadPc, dUnlocked, dNilUse>>
    /\ UNCHANGED NotRace

RaceInit ==
    /\ ProvIdle
    /\ McpIdle
    /\ StuckIdle
    /\ StreamIdle
    /\ BatchIdle
    /\ RaceIdle
    /\ ConnOpen
    /\ SessionIdle
    /\ LifeIdle
    /\ messages = <<>>
    /\ lastAdd = "new"
    /\ AgentIdle
    /\ nextStepPrompt = <<>>
    /\ toolChoice = "auto"

RaceNext ==
    \/ AsrSendAudio
    \/ \E ok \in BOOLEAN : AsrInitConnection(ok)
    \/ \E hasData \in BOOLEAN : AsrSendTest(hasData)
    \/ AsrSendNilCheck
    \/ AsrSendWrite
    \/ AsrReadCheck
    \/ \E o \in ReadOutcomes : AsrReadConn(o)
    \/ AsrReset

SpecRace == RaceInit /\ [][RaceNext]_vars

\* C37: conn and isRunning of a provider are read and written only under the
\* provider's mutex, and no operation calls ReadMessage or WriteMessage on a
\* conn that Reset has set to nil
C37_ProviderStateUnderMutex ==
    /\ dUnlocked = {}
    /\ dNilUse = {}

-----------------------------------------------------------------------------
(* Properties of AbortChat *)

\* the text pump calls handleAbortChat: for an abort message, and at the
\* start of a chat message
AbortChat == HandleAbort \/ HandleChatAbort

\* C38: AbortChat sets the interrupt flag and resets the agent and the TTS
\* provider; it leaves the ASR provider, the conversation memory, chat_round,
\* closeAfterChat and stopRecv as they are
C38_AbortChatFrame ==
    [][AbortChat =>
          /\ hInterrupt' = 1
          /\ UNCHANGED <<asrPc, provVars, messages, chatRound, closeAfterChat, stopRecv>>]_vars

C38_Witness ==
    /\ hInterrupt = 1
    /\ chatRound > 0
    /\ asrPc = "reading"
    /\ \E r \in Runs : pc[r] = "llm"
    /\ ~ttsRunning /\ ttsExiting # {}

-----------------------------------------------------------------------------
(* Properties of the connection after a failed read or write *)

\* the connection was marked closed by a failed ReadMessage or WriteMessage:
\* the flag is set and no Close has won the compare-and-swap
MarkedByFailure ==
    /\ isClosed = 1
    /\ nSockClose = 0
    /\ \A t \in Callers : connPc[t] \notin {"close_lock", "close_io"}

\* a socket write has just failed
WriteFails ==
    /\ sockWrites' = sockWrites + 1
    /\ \E t \in Callers : writeRet'[t] = "closed" /\ connPc[t] = "write_io"

\* C39: a failed WriteMessage marks the connection closed, and once a failed
\* read or write has marked it closed every later Close returns nil at once
\* and the underlying socket is never closed
C39_FailureBlocksSocketClose ==
    [][/\ WriteFails => isClosed' = 1
       /\ MarkedByFailure =>
             /\ MarkedByFailure'
             /\ closeErrs' = closeErrs
             /\ closeCalls' > closeCalls => closeRets' = closeRets + 1]_vars

C39_Witness ==
    /\ MarkedByFailure
    /\ closeCalls > 0
    /\ closeRets = closeCalls
    /\ closeErrs = 0

\* handleChatMessage is called with the empty text: the reader of the ASR
\* provider ends and passes ("", Completed) to Handler.OnAsrResult
EmptyHandleChat == AsrDeferred

\* a delta of the reply is written to the client as a chat frame
DeltaWritten == deltas' # deltas /\ frames' # frames

\* C40: HandleChat with the empty text sets the interrupt flag and resets
\* the TTS provider, starts no Run and leaves chat_round, closeAfterChat and
\* stopRecv as they are; the reply that is streaming is cut: while the flag
\* stays set no further delta is written to the client
C40_EmptyChatAborts ==
    [][/\ EmptyHandleChat =>
             /\ hInterrupt' = 1
             /\ ~ttsRunning' /\ ttsQueue' = <<>>
             /\ UNCHANGED <<pc, lock, chatRound, closeAfterChat, stopRecv>>
       /\ (asrPc = "exited" /\ hInterrupt = 1) => ~DeltaWritten]_vars
====
